---- MODULE Spec2Model ----
(***************************************************************************)
(* A model of the turn-based game and tournament code of the repository:  *)
(* the 3x3 Board and play_game (TicTacToeAgent/game_engine.py), the        *)
(* configurable GenericTicTacToe (generic_tictactoe.py), the               *)
(* TournamentEngine (tournament_system.py) and the bracket padding of      *)
(* TicTacToeAgent/tournament.py and RockPaperScissors/tournament.py.       *)
(***************************************************************************)
EXTENDS Integers, Sequences, FiniteSets, TLC

VARIABLES
    obj,     \* which object a run exercises
    board,   \* a Board: [grid, move_count]
    game,    \* a GenericTicTacToe: [board_size, win_length, board, move_count]
    ret,     \* the value returned by the last call
    pg,      \* the frame of play_game / _play_single_game
    cfg,     \* a TournamentConfig: [best_of]
    mt,      \* the frame of TournamentEngine._play_match
    eng,     \* the TournamentEngine: players, standings, matches
    tour,    \* the frame of the running tournament format
    br,      \* a bracket being padded
    log      \* the records written by the logger

vars == <<obj, board, game, ret, pg, cfg, mt, eng, tour, br, log>>

None == "None"
Empty == " "
Symbols == {"X", "O"}

(***************************************************************************)
(* Bounds of the model.                                                    *)
(***************************************************************************)
MaxN == 4          \* largest board_size explored
MaxMarks == 4      \* marks on a board larger than 3x3 handed to is_game_over
MaxCalls == 3      \* accepted make_move calls on one GenericTicTacToe
MaxLimit == 3      \* largest max_moves tried besides the default

MaxBestOf == 4     \* best_of values handed to TournamentConfig: -MaxBestOf..MaxBestOf

DefaultMaxMoves == 50   \* play_game(max_moves=50), GameConfig(max_moves=50)

(***************************************************************************)
(* Board (game_engine.py): a 3x3 grid of " ", "X", "O" and a move count.   *)
(***************************************************************************)
Cells(n) == (0 .. n - 1) \X (0 .. n - 1)

NewBoard == [grid |-> [c \in Cells(3) |-> Empty], move_count |-> 0]

\* A buggy is_valid_move that forgets the emptiness test.
Board_is_valid_move_NoEmptyTest(b, row, col) ==
    (0 <= row /\ row <= 2 /\ 0 <= col /\ col <= 2)

Board_is_valid_move(b, row, col) ==
    IF ~(0 <= row /\ row <= 2 /\ 0 <= col /\ col <= 2)
    THEN FALSE
    ELSE b.grid[<<row, col>>] = Empty

\* The pair <<board after the call, returned value>>.
Board_make_move(b, row, col, symbol) ==
    IF ~Board_is_valid_move(b, row, col)
    THEN <<b, FALSE>>
    ELSE <<[grid |-> [b.grid EXCEPT ![<<row, col>>] = symbol],
            move_count |-> b.move_count + 1], TRUE>>

\* A buggy check_win that forgets the anti-diagonal.
Board_check_win_NoAntiDiag(b, symbol) ==
    \/ \E row \in 0 .. 2 : \A col \in 0 .. 2 : b.grid[<<row, col>>] = symbol
    \/ \E col \in 0 .. 2 : \A row \in 0 .. 2 : b.grid[<<row, col>>] = symbol
    \/ \A i \in 0 .. 2 : b.grid[<<i, i>>] = symbol

Board_check_win(b, symbol) ==
    \/ \E row \in 0 .. 2 : \A col \in 0 .. 2 : b.grid[<<row, col>>] = symbol
    \/ \E col \in 0 .. 2 : \A row \in 0 .. 2 : b.grid[<<row, col>>] = symbol
    \/ \A i \in 0 .. 2 : b.grid[<<i, i>>] = symbol
    \/ \A i \in 0 .. 2 : b.grid[<<i, 2 - i>>] = symbol

Board_check_draw(b) ==
    b.move_count = 9 /\ ~(Board_check_win(b, "X") \/ Board_check_win(b, "O"))

\* The pair <<is_over, winner>>.
Board_is_game_over(b) ==
    IF Board_check_win(b, "X") THEN <<TRUE, "X">>
    ELSE IF Board_check_win(b, "O") THEN <<TRUE, "O">>
    ELSE IF Board_check_draw(b) THEN <<TRUE, None>>
    ELSE <<FALSE, None>>

\* find_valid_move: <<the first empty cell in row-major order>>, or <<>> for None.
RECURSIVE FindFrom(_, _)
FindFrom(b, idx) ==
    IF idx >= 9 THEN <<>>
    ELSE IF Board_is_valid_move(b, idx \div 3, idx % 3)
         THEN << <<idx \div 3, idx % 3>> >>
         ELSE FindFrom(b, idx + 1)

find_valid_move(b) == FindFrom(b, 0)

(***************************************************************************)
(* GenericTicTacToe (generic_tictactoe.py).  A move is what an agent      *)
(* hands in: isTuple says whether it is a Python tuple, v holds its items. *)
(***************************************************************************)
player_symbols == <<"X", "O">>

NewGame(n, k) ==
    [board_size |-> n, win_length |-> k,
     board |-> [c \in Cells(n) |-> Empty], move_count |-> 0]

Tuple2(row, col) == [isTuple |-> TRUE, v |-> <<row, col>>]

Generic_is_valid_move(g, move) ==
    IF ~move.isTuple \/ Len(move.v) # 2
    THEN FALSE
    ELSE LET row == move.v[1]
             col == move.v[2]
         IN IF ~(0 <= row /\ row < g.board_size /\ 0 <= col /\ col < g.board_size)
            THEN FALSE
            ELSE g.board[<<row, col>>] = Empty

\* The pair <<game after the call, returned value>>.
Generic_make_move(g, move, player) ==
    IF ~move.isTuple \/ Len(move.v) # 2
    THEN <<g, FALSE>>
    ELSE IF ~Generic_is_valid_move(g, move)
         THEN <<g, FALSE>>
         ELSE <<[g EXCEPT !.board[<<move.v[1], move.v[2]>>] = player,
                          !.move_count = g.move_count + 1], TRUE>>

\* The scan of _check_line over positions[i..], having seen `consecutive` cells.
RECURSIVE ScanLine(_, _, _, _, _)
ScanLine(g, player, positions, i, consecutive) ==
    IF i > Len(positions) THEN FALSE
    ELSE IF g.board[positions[i]] = player
         THEN IF consecutive + 1 >= g.win_length
              THEN TRUE
              ELSE ScanLine(g, player, positions, i + 1, consecutive + 1)
         ELSE ScanLine(g, player, positions, i + 1, 0)

Generic_check_line(g, player, positions) ==
    IF Len(positions) < g.win_length THEN FALSE
    ELSE IF g.win_length = Len(positions)
         THEN \A i \in 1 .. Len(positions) : g.board[positions[i]] = player
         ELSE ScanLine(g, player, positions, 1, 0)

\* A buggy _check_all_sequences whose anti-diagonal scan starts one column early.
Generic_check_all_sequences_AntiDiagOff(g, player) ==
    LET n == g.board_size
        k == g.win_length
    IN \/ \E row \in 0 .. n - 1 : \E start_col \in 0 .. n - k :
              \A i \in 0 .. k - 1 : g.board[<<row, start_col + i>>] = player
       \/ \E col \in 0 .. n - 1 : \E start_row \in 0 .. n - k :
              \A i \in 0 .. k - 1 : g.board[<<start_row + i, col>>] = player
       \/ \E start_row \in 0 .. n - k : \E start_col \in 0 .. n - k :
              \A i \in 0 .. k - 1 : g.board[<<start_row + i, start_col + i>>] = player
       \/ \E start_row \in 0 .. n - k : \E start_col \in k .. n - 1 :
              \A i \in 0 .. k - 1 : g.board[<<start_row + i, start_col - i>>] = player

Generic_check_all_sequences(g, player) ==
    LET n == g.board_size
        k == g.win_length
    IN \/ \E row \in 0 .. n - 1 : \E start_col \in 0 .. n - k :
              \A i \in 0 .. k - 1 : g.board[<<row, start_col + i>>] = player
       \/ \E col \in 0 .. n - 1 : \E start_row \in 0 .. n - k :
              \A i \in 0 .. k - 1 : g.board[<<start_row + i, col>>] = player
       \/ \E start_row \in 0 .. n - k : \E start_col \in 0 .. n - k :
              \A i \in 0 .. k - 1 : g.board[<<start_row + i, start_col + i>>] = player
       \/ \E start_row \in 0 .. n - k : \E start_col \in k - 1 .. n - 1 :
              \A i \in 0 .. k - 1 : g.board[<<start_row + i, start_col - i>>] = player

Generic_check_win(g, player) ==
    LET n == g.board_size
    IN IF \E row \in 0 .. n - 1 :
              Generic_check_line(g, player, [col \in 1 .. n |-> <<row, col - 1>>])
       THEN TRUE
       ELSE IF \E col \in 0 .. n - 1 :
              Generic_check_line(g, player, [row \in 1 .. n |-> <<row - 1, col>>])
       THEN TRUE
       ELSE IF Generic_check_line(g, player, [i \in 1 .. n |-> <<i - 1, i - 1>>])
       THEN TRUE
       ELSE IF Generic_check_line(g, player, [i \in 1 .. n |-> <<i - 1, n - 1 - (i - 1)>>])
       THEN TRUE
       ELSE IF n > 3 \/ g.win_length # n
       THEN Generic_check_all_sequences(g, player)
       ELSE FALSE

\* The first player of player_symbols that has won, or None.
RECURSIVE FirstWinner(_, _)
FirstWinner(g, i) ==
    IF i > Len(player_symbols) THEN None
    ELSE IF Generic_check_win(g, player_symbols[i]) THEN player_symbols[i]
    ELSE FirstWinner(g, i + 1)

\* The pair <<is_over, winner>>.
Generic_is_game_over(g) ==
    IF FirstWinner(g, 1) # None THEN <<TRUE, FirstWinner(g, 1)>>
    ELSE IF g.move_count >= g.board_size * g.board_size THEN <<TRUE, None>>
    ELSE <<FALSE, None>>

\* get_valid_moves: the empty cells in row-major order.
RECURSIVE ValidFrom(_, _)
ValidFrom(g, idx) ==
    IF idx >= g.board_size * g.board_size THEN <<>>
    ELSE LET cell == <<idx \div g.board_size, idx % g.board_size>>
         IN IF Generic_is_valid_move(g, Tuple2(cell[1], cell[2]))
            THEN <<cell>> \o ValidFrom(g, idx + 1)
            ELSE ValidFrom(g, idx + 1)

Generic_get_valid_moves(g) == ValidFrom(g, 0)

(***************************************************************************)
(* SpecMoves: arbitrary calls of make_move on one Board (until it is full)  *)
(* or on one GenericTicTacToe of any size 3..MaxN and win length 3..size   *)
(* (MaxCalls accepted calls).                                              *)
(***************************************************************************)
Coords(n) == -1 .. n

\* What an agent may hand to GenericTicTacToe.make_move.
Malformed ==
    {[isTuple |-> FALSE, v |-> <<0, 0>>],
     [isTuple |-> TRUE, v |-> <<0>>],
     [isTuple |-> TRUE, v |-> <<0, 0, 0>>]}

MoveInputs(n) == {Tuple2(row, col) : row \in Coords(n), col \in Coords(n)} \cup Malformed

NoCall == [op |-> "none", val |-> None]

othersMoves == <<pg, cfg, mt, eng, tour, br, log>>

InitMoves ==
    /\ obj \in {"Board", "Generic"}
    /\ board = NewBoard
    /\ \E n \in 3 .. MaxN : \E k \in 3 .. n :
          game = IF obj = "Generic" THEN NewGame(n, k) ELSE NewGame(3, 3)
    /\ ret = NoCall
    /\ pg = None /\ cfg = None /\ mt = None /\ eng = None /\ tour = None /\ br = None
    /\ log = None

BoardMakeMove(row, col, symbol) ==
    /\ obj = "Board"
    /\ board' = Board_make_move(board, row, col, symbol)[1]
    /\ ret' = [op |-> "make_move", val |-> Board_make_move(board, row, col, symbol)[2]]
    /\ UNCHANGED <<obj, game, othersMoves>>

GenericMakeMove(move, player) ==
    /\ obj = "Generic"
    /\ Generic_make_move(game, move, player)[1].move_count <= MaxCalls
    /\ game' = Generic_make_move(game, move, player)[1]
    /\ ret' = [op |-> "make_move", val |-> Generic_make_move(game, move, player)[2]]
    /\ UNCHANGED <<obj, board, othersMoves>>

NextMoves ==
    \/ \E row \in Coords(3), col \in Coords(3), symbol \in Symbols :
          BoardMakeMove(row, col, symbol)
    \/ \E move \in MoveInputs(game.board_size), player \in Symbols :
          GenericMakeMove(move, player)

SpecMoves == InitMoves /\ [][NextMoves]_vars

(***************************************************************************)
(* C1: make_move returns True exactly when the target cell is inside the   *)
(* board and empty; then only that cell changes, to the mover's symbol,    *)
(* and move_count grows by 1; otherwise it returns False and changes       *)
(* nothing.  So an occupied cell is never overwritten and move_count is    *)
(* the number of non-empty cells.                                          *)
(***************************************************************************)
\* What a call of Board.make_move from the current state returns and leaves.
C1_BoardCall(row, col, symbol) ==
    LET ok == row \in 0 .. 2 /\ col \in 0 .. 2 /\ board.grid[<<row, col>>] = Empty
        r == Board_make_move(board, row, col, symbol)
    IN /\ r[2] = ok
       /\ IF ok
          THEN /\ r[1].grid = [board.grid EXCEPT ![<<row, col>>] = symbol]
               /\ r[1].move_count = board.move_count + 1
          ELSE r[1] = board

\* What a call of GenericTicTacToe.make_move from the current state returns and leaves.
C1_GenericCall(row, col, player) ==
    LET n == game.board_size
        ok == row \in 0 .. n - 1 /\ col \in 0 .. n - 1 /\ game.board[<<row, col>>] = Empty
        r == Generic_make_move(game, Tuple2(row, col), player)
    IN /\ r[2] = ok
       /\ IF ok
          THEN /\ r[1].board = [game.board EXCEPT ![<<row, col>>] = player]
               /\ r[1].move_count = game.move_count + 1
               /\ r[1].board_size = n /\ r[1].win_length = game.win_length
          ELSE r[1] = game

C1_Calls ==
    /\ obj = "Board" =>
          \A row \in Coords(3), col \in Coords(3), symbol \in Symbols :
              C1_BoardCall(row, col, symbol)
    /\ obj = "Generic" =>
          \A row \in Coords(game.board_size), col \in Coords(game.board_size),
             player \in Symbols : C1_GenericCall(row, col, player)

C1_CountsMarks ==
    /\ board.move_count = Cardinality({c \in Cells(3) : board.grid[c] # Empty})
    /\ game.move_count =
          Cardinality({c \in Cells(game.board_size) : game.board[c] # Empty})

\* A step that returned True filled one empty cell; one that returned False
\* changed no cell; no step rewrites an occupied cell.
C1_StepEffect ==
    LET bChanged == {c \in Cells(3) : board'.grid[c] # board.grid[c]}
        gChanged == {c \in Cells(game.board_size) : game'.board[c] # game.board[c]}
        changed == bChanged \cup gChanged
    IN /\ \A c \in bChanged : board.grid[c] = Empty
       /\ \A c \in gChanged : game.board[c] = Empty
       /\ Cardinality(changed) = IF ret'.val THEN 1 ELSE 0
       /\ board'.move_count + game'.move_count
             = board.move_count + game.move_count + Cardinality(changed)

C1_MakeMoveContract == []C1_Calls /\ []C1_CountsMarks /\ [][C1_StepEffect]_vars

\* A call was refused on a full 3x3 board, after nine accepted calls.
C1_Witness ==
    /\ obj = "Board" /\ board.move_count = 9
    /\ ret.op = "make_move" /\ ret.val = FALSE

\* A call was accepted on a 4x4 GenericTicTacToe that already held marks.
C1_WitnessGeneric ==
    /\ obj = "Generic" /\ game.board_size = 4 /\ game.move_count = MaxCalls
    /\ ret.op = "make_move" /\ ret.val = TRUE

(***************************************************************************)
(* SpecWin: is_game_over called once on a GenericTicTacToe of any size     *)
(* 3..MaxN and win length 3..size, holding any content (every content on   *)
(* 3x3, up to MaxMarks marks beyond).                                      *)
(***************************************************************************)
\* Marks on a board: every board content on 3x3, MaxMarks marks beyond.
MarkCap(n) == IF n = 3 THEN 9 ELSE MaxMarks

\* The game of size n and win length k with X on xs and O on the rest of marked.
GameWith(n, k, marked, xs) ==
    [board_size |-> n, win_length |-> k,
     board |-> [c \in Cells(n) |->
                   IF c \in xs THEN "X" ELSE IF c \in marked THEN "O" ELSE Empty],
     move_count |-> Cardinality(marked)]

InitWin ==
    /\ obj = "Generic"
    /\ board = NewBoard
    /\ \E n \in 3 .. MaxN : \E k \in 3 .. n :
          \E marked \in {S \in SUBSET Cells(n) : Cardinality(S) <= MarkCap(n)} :
              \E xs \in SUBSET marked : game = GameWith(n, k, marked, xs)
    /\ ret = NoCall
    /\ pg = None /\ cfg = None /\ mt = None /\ eng = None /\ tour = None /\ br = None
    /\ log = None

GenericIsGameOver ==
    /\ ret.op = "none"
    /\ ret' = [op |-> "is_game_over", val |-> Generic_is_game_over(game)]
    /\ UNCHANGED <<obj, board, game, othersMoves>>

NextWin == GenericIsGameOver

SpecWin == InitWin /\ [][NextWin]_vars

(***************************************************************************)
(* C4: for 3 <= K <= N, _check_win(p) is True exactly when some            *)
(* horizontal, vertical, diagonal or anti-diagonal run of K consecutive    *)
(* cells holds p; is_game_over reports a player with such a run as the     *)
(* winner, (True, None) exactly when nobody has a run and the board is     *)
(* full, and (False, None) otherwise.                                      *)
(***************************************************************************)
Dirs == {<<0, 1>>, <<1, 0>>, <<1, 1>>, <<1, -1>>}

HasRun(g, p) ==
    \E c \in Cells(g.board_size), d \in Dirs :
        \A i \in 0 .. g.win_length - 1 :
            LET cell == <<c[1] + i * d[1], c[2] + i * d[2]>>
            IN cell \in Cells(g.board_size) /\ g.board[cell] = p

IsFull(g) == \A c \in Cells(g.board_size) : g.board[c] # Empty

C4_CheckWinIsRun ==
    /\ \A p \in Symbols : Generic_check_win(game, p) <=> HasRun(game, p)
    /\ ret.op = "is_game_over" =>
          /\ ret.val[2] # None => ret.val[1] /\ HasRun(game, ret.val[2])
          /\ (\E p \in Symbols : HasRun(game, p)) => ret.val[2] # None
          /\ ret.val = <<TRUE, None>> <=>
                (IsFull(game) /\ \A p \in Symbols : ~HasRun(game, p))
          /\ ret.val = <<FALSE, None>> <=>
                (~IsFull(game) /\ \A p \in Symbols : ~HasRun(game, p))

\* O holds an anti-diagonal run of 3 on a 4x4 board that is no full line, and
\* is reported as the winner.
C4_Witness ==
    /\ game.board_size = 4 /\ game.win_length = 3
    /\ ret.op = "is_game_over" /\ ret.val = <<TRUE, "O">>
    /\ game.board[<<0, 3>>] = "O" /\ game.board[<<1, 2>>] = "O"
    /\ game.board[<<2, 1>>] = "O" /\ game.board[<<3, 0>>] # "O"

(***************************************************************************)
(* play_game (game_engine.py).  The frame holds the locals of the call:    *)
(* current_player, move_count, max_moves, and, once it has returned, the   *)
(* returned (result, winner).  iters counts the loop iterations begun,     *)
(* placed the accepted make_move calls, last the symbol of the last mark.  *)
(* An agent either returns a pair (row, col) or raises; the logger and     *)
(* print calls are taken not to raise.                                     *)
(***************************************************************************)
\* A buggy switch that leaves the turn with the same player.
Other_NoSwitch(symbol) == symbol

Other(symbol) == IF symbol = "X" THEN "O" ELSE "X"

NewFrame(limit) ==
    [pc |-> "loop", current_player |-> "X", move_count |-> 0, max_moves |-> limit,
     result |-> None, winner |-> None, iters |-> 0, placed |-> 0, last |-> None]

\* A loop guard that lets one iteration too many through.
LoopGuard_OffByOne(f) == f.move_count <= f.max_moves

\* while move_count < max_moves
LoopGuard(f) == f.move_count < f.max_moves

\* Lines 234-237: the loop was left by its guard or by break.
PG_AfterLoop(f) == [f EXCEPT !.pc = "returned", !.result = "draw", !.winner = None]

\* Lines 181-202 and 215-230: after a mark by the current player on b.
PG_AfterMark(b, f) ==
    LET over == Board_is_game_over(b)
        g == [f EXCEPT !.placed = f.placed + 1, !.last = f.current_player]
    IN IF over[1]
       THEN [g EXCEPT !.pc = "returned",
                      !.result = IF over[2] # None THEN "win" ELSE "draw",
                      !.winner = over[2]]
       ELSE [g EXCEPT !.current_player = Other(f.current_player),
                      !.move_count = f.move_count + 1]

\* Lines 207-232, and 166-173: the first valid move is played, or the loop is left.
PG_Fallback(b, f) ==
    LET valid_move == find_valid_move(b)
    IN IF valid_move # <<>>
       THEN LET b1 == Board_make_move(b, valid_move[1][1], valid_move[1][2],
                                      f.current_player)[1]
            IN <<b1, PG_AfterMark(b1, f)>>
       ELSE <<b, PG_AfterLoop(f)>>

\* One iteration whose agent returned (row, col): the pair <<board, frame>>.
PG_Try(b, f, row, col) ==
    LET r == Board_make_move(b, row, col, f.current_player)
    IN IF ~r[2] THEN PG_Fallback(b, f) ELSE <<r[1], PG_AfterMark(r[1], f)>>

\* One iteration whose agent raised: the pair <<board, frame>>.
PG_Except(b, f) == PG_Fallback(b, f)

(***************************************************************************)
(* TournamentEngine._play_single_game (tournament_system.py) between       *)
(* player1 (p1_symbol X) and player2 (p2_symbol O).  current_player holds  *)
(* the symbol of the player to move; winner is "player1", "player2" or     *)
(* None, result what log_result is given.                                  *)
(***************************************************************************)
WinnerName(winner) ==
    IF winner = "X" THEN "player1" ELSE IF winner = "O" THEN "player2" ELSE None

\* Lines 386-395: the loop was left by its guard or by break.
SG_AfterLoop(f) == [f EXCEPT !.pc = "returned", !.result = "draw", !.winner = None]

\* Lines 352-380: after a mark by the current player on g.
SG_AfterMark(g, f) ==
    LET over == Generic_is_game_over(g)
        h == [f EXCEPT !.placed = f.placed + 1, !.last = f.current_player]
    IN IF over[1]
       THEN [h EXCEPT !.pc = "returned",
                      !.result = IF over[2] # None THEN "win" ELSE "draw",
                      !.winner = WinnerName(over[2])]
       ELSE [h EXCEPT !.current_player = Other(f.current_player),
                      !.move_count = f.move_count + 1]

\* One iteration whose agent returned move: the pair <<game, frame>>.
SG_Try(g, f, move) ==
    LET r == Generic_make_move(g, move, f.current_player)
    IN IF ~r[2]
       THEN LET valid_moves == Generic_get_valid_moves(g)
            IN IF valid_moves # <<>>
               THEN LET g1 == Generic_make_move(
                                 g, Tuple2(valid_moves[1][1], valid_moves[1][2]),
                                 f.current_player)[1]
                    IN <<g1, SG_AfterMark(g1, f)>>
               ELSE <<g, SG_AfterLoop(f)>>
       ELSE <<r[1], SG_AfterMark(r[1], f)>>

\* One iteration whose agent raised: the loop is left.
SG_Except(g, f) == <<g, SG_AfterLoop(f)>>

(***************************************************************************)
(* SpecGame: one call of play_game, or one call of _play_single_game on a  *)
(* fresh GenericTicTacToe, with agents that return any pair, any malformed *)
(* move, or raise.                                                         *)
(***************************************************************************)
Limits == (0 .. MaxLimit) \cup {DefaultMaxMoves}

othersGame == <<ret, cfg, mt, eng, tour, br, log>>

InitGame ==
    /\ obj \in {"play_game", "_play_single_game"}
    /\ board = NewBoard
    /\ \E n \in 3 .. MaxN : \E k \in 3 .. n :
          game = IF obj = "_play_single_game" THEN NewGame(n, k) ELSE NewGame(3, 3)
    /\ \E limit \in Limits :
          /\ game.board_size > 3 => limit <= MaxLimit
          /\ pg = NewFrame(limit)
    /\ ret = NoCall
    /\ cfg = None /\ mt = None /\ eng = None /\ tour = None /\ br = None /\ log = None

Iterating == pg.pc = "loop" /\ LoopGuard(pg)

PlayGameMove(row, col) ==
    /\ obj = "play_game" /\ Iterating
    /\ board' = PG_Try(board, pg, row, col)[1]
    /\ pg' = [PG_Try(board, pg, row, col)[2] EXCEPT !.iters = pg.iters + 1]
    /\ UNCHANGED <<obj, game, othersGame>>

PlayGameRaise ==
    /\ obj = "play_game" /\ Iterating
    /\ board' = PG_Except(board, pg)[1]
    /\ pg' = [PG_Except(board, pg)[2] EXCEPT !.iters = pg.iters + 1]
    /\ UNCHANGED <<obj, game, othersGame>>

PlayGameLimit ==
    /\ obj = "play_game" /\ pg.pc = "loop" /\ ~LoopGuard(pg)
    /\ pg' = PG_AfterLoop(pg)
    /\ UNCHANGED <<obj, board, game, othersGame>>

SingleGameMove(move) ==
    /\ obj = "_play_single_game" /\ Iterating
    /\ game' = SG_Try(game, pg, move)[1]
    /\ pg' = [SG_Try(game, pg, move)[2] EXCEPT !.iters = pg.iters + 1]
    /\ UNCHANGED <<obj, board, othersGame>>

SingleGameRaise ==
    /\ obj = "_play_single_game" /\ Iterating
    /\ game' = SG_Except(game, pg)[1]
    /\ pg' = [SG_Except(game, pg)[2] EXCEPT !.iters = pg.iters + 1]
    /\ UNCHANGED <<obj, board, othersGame>>

SingleGameLimit ==
    /\ obj = "_play_single_game" /\ pg.pc = "loop" /\ ~LoopGuard(pg)
    /\ pg' = SG_AfterLoop(pg)
    /\ UNCHANGED <<obj, board, game, othersGame>>

NextGame ==
    \/ \E row \in Coords(3), col \in Coords(3) : PlayGameMove(row, col)
    \/ PlayGameRaise
    \/ PlayGameLimit
    \/ \E move \in MoveInputs(game.board_size) : SingleGameMove(move)
    \/ SingleGameRaise
    \/ SingleGameLimit

SpecGame == InitGame /\ [][NextGame]_vars

(***************************************************************************)
(* C2: with the default max_moves = 50, play_game returns ("win", s) only  *)
(* if the final board holds a full row, column or diagonal of s and s      *)
(* placed the last mark, and ("draw", None) only if all 9 cells are filled *)
(* and neither X nor O has a line; X and O never both have a line.         *)
(***************************************************************************)
Lines3 ==
    {{<<r, c>> : c \in 0 .. 2} : r \in 0 .. 2}
        \cup {{<<r, c>> : r \in 0 .. 2} : c \in 0 .. 2}
        \cup {{<<0, 0>>, <<1, 1>>, <<2, 2>>}, {<<0, 2>>, <<1, 1>>, <<2, 0>>}}

HasLine(b, s) == \E l \in Lines3 : \A c \in l : b.grid[c] = s

C2_Outcome ==
    obj = "play_game" =>
        /\ ~(HasLine(board, "X") /\ HasLine(board, "O"))
        /\ (pg.pc = "returned" /\ pg.max_moves = DefaultMaxMoves) =>
              /\ pg.result \in {"win", "draw"}
              /\ pg.result = "win" =>
                    /\ pg.winner \in Symbols
                    /\ HasLine(board, pg.winner)
                    /\ pg.last = pg.winner
              /\ pg.result = "draw" =>
                    /\ pg.winner = None
                    /\ \A c \in Cells(3) : board.grid[c] # Empty
                    /\ \A s \in Symbols : ~HasLine(board, s)

\* play_game returned a draw on a full board under the default max_moves.
C2_Witness ==
    /\ obj = "play_game" /\ pg.pc = "returned" /\ pg.max_moves = DefaultMaxMoves
    /\ pg.result = "draw" /\ board.move_count = 9

\* play_game returned a win of O under the default max_moves.
C2_WitnessWin ==
    /\ obj = "play_game" /\ pg.pc = "returned" /\ pg.max_moves = DefaultMaxMoves
    /\ pg.result = "win" /\ pg.winner = "O"

(***************************************************************************)
(* C3: play_game and _play_single_game return whatever the agents do       *)
(* (valid moves, invalid moves, raised exceptions): every step of a        *)
(* running game begins one more loop iteration or returns, a running game  *)
(* can always take a step, at most max_moves iterations are begun, a mark  *)
(* goes to an empty cell only (so at most one per cell), and the returned  *)
(* result is a win or a draw.                                              *)
(***************************************************************************)
Marks ==
    IF obj = "play_game"
    THEN Cardinality({c \in Cells(3) : board.grid[c] # Empty})
    ELSE Cardinality({c \in Cells(game.board_size) : game.board[c] # Empty})

C3_Bounded ==
    /\ pg.iters <= pg.max_moves
    /\ pg.placed = Marks
    /\ pg.placed <= pg.iters
    /\ pg.pc = "loop" =>
          ENABLED (PlayGameRaise \/ PlayGameLimit \/ SingleGameRaise \/ SingleGameLimit)
    /\ pg.pc = "returned" =>
          /\ pg.result \in {"win", "draw"}
          /\ pg.result = "win" <=> pg.winner # None

C3_Progress ==
    /\ pg.pc = "loop"
    /\ pg'.iters = pg.iters + 1
    /\ pg'.pc = "returned" \/ pg'.move_count = pg.move_count + 1
    /\ \A c \in Cells(3) : board'.grid[c] # board.grid[c] => board.grid[c] = Empty
    /\ \A c \in Cells(game.board_size) :
          game'.board[c] # game.board[c] => game.board[c] = Empty

C3_LimitExit == pg.pc = "loop" /\ ~LoopGuard(pg) /\ pg'.pc = "returned"

C3_Terminates == []C3_Bounded /\ [][C3_Progress \/ C3_LimitExit]_vars

\* _play_single_game returned a draw because max_moves iterations had run,
\* one of them started by an agent's invalid move.
C3_Witness ==
    /\ obj = "_play_single_game" /\ pg.pc = "returned" /\ pg.result = "draw"
    /\ pg.max_moves = MaxLimit /\ pg.iters = MaxLimit /\ pg.placed = MaxLimit
    /\ game.board[<<0, 0>>] = "O"

\* play_game returned after an agent raised on its first turn and the
\* emergency moves filled the board.
C3_WitnessRaise ==
    /\ obj = "play_game" /\ pg.pc = "returned" /\ pg.max_moves = DefaultMaxMoves
    /\ pg.iters = 9

(***************************************************************************)
(* TournamentConfig (tournament_system.py).  raw keeps the best_of the     *)
(* constructor was given; validated says that __post_init__ has run.       *)
(***************************************************************************)
\* A buggy __post_init__ that forgets to raise values below 1.
post_init_NoFloor(best_of) == IF best_of % 2 = 0 THEN best_of + 1 ELSE best_of

post_init(best_of) ==
    LET b == IF best_of < 1 THEN 1 ELSE best_of
    IN IF b % 2 = 0 THEN b + 1 ELSE b

NewConfig(best_of) == [raw |-> best_of, best_of |-> best_of, validated |-> FALSE]

(***************************************************************************)
(* TournamentEngine (tournament_system.py): players, standings, matches.   *)
(***************************************************************************)
NewStanding ==
    [wins |-> 0, losses |-> 0, games_won |-> 0, games_lost |-> 0,
     matches_played |-> 0, points |-> 0, opponents |-> <<>>]

Range(seq) == {seq[i] : i \in 1 .. Len(seq)}

\* The engine after add_players(players) with shuffle_players = False.
NewEngine(players) ==
    [players |-> players,
     standings |-> [p \in Range(players) |-> NewStanding],
     matches |-> <<>>]

\* _update_standings: the statements in their order, each on the result of the last.
update_standings(st, player1, player2, p1_wins, p2_wins) ==
    LET s1 == [st EXCEPT ![player1].matches_played = @ + 1]
        s2 == [s1 EXCEPT ![player2].matches_played = @ + 1]
        s3 == [s2 EXCEPT ![player1].games_won = @ + p1_wins]
        s4 == [s3 EXCEPT ![player1].games_lost = @ + p2_wins]
        s5 == [s4 EXCEPT ![player2].games_won = @ + p2_wins]
        s6 == [s5 EXCEPT ![player2].games_lost = @ + p1_wins]
        s7 == IF p1_wins > p2_wins
              THEN LET a == [s6 EXCEPT ![player1].wins = @ + 1]
                       b == [a EXCEPT ![player2].losses = @ + 1]
                       c == [b EXCEPT ![player1].points = @ + 3]
                   IN [c EXCEPT ![player2].points = @ + 1]
              ELSE IF p2_wins > p1_wins
              THEN LET a == [s6 EXCEPT ![player2].wins = @ + 1]
                       b == [a EXCEPT ![player1].losses = @ + 1]
                       c == [b EXCEPT ![player2].points = @ + 3]
                   IN [c EXCEPT ![player1].points = @ + 1]
              ELSE LET a == [s6 EXCEPT ![player1].points = @ + 2]
                   IN [a EXCEPT ![player2].points = @ + 2]
        s8 == [s7 EXCEPT ![player1].opponents = Append(@, player2)]
    IN [s8 EXCEPT ![player2].opponents = Append(@, player1)]

(***************************************************************************)
(* TournamentEngine._play_match.  games is len(games), counted up to       *)
(* GamesCap and not beyond; game_num is kept as its parity (odd).          *)
(***************************************************************************)
GamesCap == MaxBestOf + 3

\* What _play_single_game returns as the winner, in terms of its parameters.
GameWinners == {"player1", "player2", None}

IdleMatch ==
    [pc |-> "idle", player1 |-> None, player2 |-> None, player1_wins |-> 0,
     player2_wins |-> 0, wins_needed |-> 0, games |-> 0, odd |-> TRUE, winner |-> None]

\* Lines 245-250.
StartMatch(c, player1_name, player2_name) ==
    [pc |-> "loop", player1 |-> player1_name, player2 |-> player2_name,
     player1_wins |-> 0, player2_wins |-> 0,
     wins_needed |-> (c.best_of + 1) \div 2, games |-> 0, odd |-> TRUE, winner |-> None]

\* while player1_wins < wins_needed and player2_wins < wins_needed
MatchGuard(m) == m.player1_wins < m.wins_needed /\ m.player2_wins < m.wins_needed

\* Lines 252-280: one game, whose _play_single_game call returned winner w.
MatchGameStep(m, w) ==
    LET first == IF m.odd THEN m.player1 ELSE m.player2
        second == IF m.odd THEN m.player2 ELSE m.player1
        winner == IF w = "player1" THEN first ELSE IF w = "player2" THEN second ELSE None
    IN [m EXCEPT !.games = IF m.games < GamesCap THEN m.games + 1 ELSE m.games,
                 !.player1_wins = IF winner = m.player1 THEN @ + 1 ELSE @,
                 !.player2_wins = IF winner # m.player1 /\ winner = m.player2
                                  THEN @ + 1 ELSE @,
                 !.odd = ~m.odd]

\* Line 283.
MatchWinner(m) == IF m.player1_wins > m.player2_wins THEN m.player1 ELSE m.player2

\* Lines 282-311: the engine after the match, and the frame once returned.
MatchReturnEngine(e, m) ==
    [e EXCEPT !.standings = update_standings(e.standings, m.player1, m.player2,
                                             m.player1_wins, m.player2_wins),
              !.matches = Append(e.matches,
                                 [player1 |-> m.player1, player2 |-> m.player2,
                                  winner |-> MatchWinner(m),
                                  score |-> <<m.player1_wins, m.player2_wins>>,
                                  games |-> m.games])]

MatchReturnFrame(m) == [m EXCEPT !.pc = "returned", !.winner = MatchWinner(m)]

(***************************************************************************)
(* SpecMatch: a TournamentConfig is built with any best_of in              *)
(* -MaxBestOf..MaxBestOf, then one match is played between A and B; every  *)
(* game may be won by either player or drawn.                              *)
(***************************************************************************)
othersMatch == <<obj, board, game, ret, pg, tour, br, log>>

InitMatch ==
    /\ obj = "_play_match"
    /\ board = None /\ game = None /\ ret = None
    /\ \E b \in -MaxBestOf .. MaxBestOf : cfg = NewConfig(b)
    /\ eng = NewEngine(<<"A", "B">>)
    /\ mt = IdleMatch
    /\ pg = None /\ tour = None /\ br = None /\ log = None

PostInit ==
    /\ ~cfg.validated
    /\ cfg' = [cfg EXCEPT !.best_of = post_init(cfg.best_of), !.validated = TRUE]
    /\ UNCHANGED <<mt, eng, othersMatch>>

MatchStart ==
    /\ cfg.validated /\ mt.pc = "idle"
    /\ mt' = StartMatch(cfg, "A", "B")
    /\ UNCHANGED <<cfg, eng, othersMatch>>

MatchGame(w) ==
    /\ mt.pc = "loop" /\ MatchGuard(mt)
    /\ mt' = MatchGameStep(mt, w)
    /\ UNCHANGED <<cfg, eng, othersMatch>>

MatchReturn ==
    /\ mt.pc = "loop" /\ ~MatchGuard(mt)
    /\ eng' = MatchReturnEngine(eng, mt)
    /\ mt' = MatchReturnFrame(mt)
    /\ UNCHANGED <<cfg, othersMatch>>

NextMatch ==
    \/ PostInit
    \/ MatchStart
    \/ \E w \in GameWinners : MatchGame(w)
    \/ MatchReturn

SpecMatch == InitMatch /\ [][NextMatch]_vars

\* The program runs on while it has a step to take.
SpecMatchFair == SpecMatch /\ WF_vars(NextMatch)

(***************************************************************************)
(* C5: a match with best_of = X consists of at most X games: the number of *)
(* game results stored in MatchResult.games never exceeds X, and the match *)
(* stops as soon as one player has won (X+1)//2 games.                     *)
(***************************************************************************)
C5_AtMostBestOfGames ==
    mt.pc # "idle" =>
        /\ mt.games <= cfg.best_of
        /\ mt.player1_wins <= (cfg.best_of + 1) \div 2
        /\ mt.player2_wins <= (cfg.best_of + 1) \div 2
        /\ \A i \in 1 .. Len(eng.matches) : eng.matches[i].games <= cfg.best_of

(***************************************************************************)
(* C6: because best_of is odd, _play_match eventually returns a            *)
(* MatchResult whose winner won strictly more games than the opponent.     *)
(***************************************************************************)
WinsOf(m, name) == IF name = m.player1 THEN m.player1_wins ELSE m.player2_wins

LoserOf(m) == IF m.winner = m.player1 THEN m.player2 ELSE m.player1

C6_ClearWinner ==
    /\ (mt.pc = "loop") ~> (mt.pc = "returned")
    /\ [](mt.pc = "returned" => WinsOf(mt, mt.winner) > WinsOf(mt, LoserOf(mt)))

(***************************************************************************)
(* C7: after construction with any integer best_of, config.best_of is odd  *)
(* and at least 1: values below 1 become 1, even values are raised by one, *)
(* odd values >= 1 are kept.                                               *)
(***************************************************************************)
C7_BestOfOddPositive ==
    cfg.validated =>
        /\ cfg.best_of >= 1 /\ cfg.best_of % 2 = 1
        /\ cfg.raw < 1 => cfg.best_of = 1
        /\ (cfg.raw >= 1 /\ cfg.raw % 2 = 0) => cfg.best_of = cfg.raw + 1
        /\ (cfg.raw >= 1 /\ cfg.raw % 2 = 1) => cfg.best_of = cfg.raw

\* A negative odd best_of was raised to 1.
C7_Witness == cfg.validated /\ cfg.raw = -3 /\ cfg.best_of = 1

\* An even best_of was raised by one.
C7_WitnessEven == cfg.validated /\ cfg.raw = 2 /\ cfg.best_of = 3

(***************************************************************************)
(* Bracket padding for single elimination.                                 *)
(*   "bracket" : TournamentBracket._pad_to_power_of_two (tournament.py)    *)
(*   "manager" : TournamentManager._pad_bracket (RockPaperScissors)        *)
(*   "engine"  : the padding loop of TournamentEngine._run_single_elimination *)
(***************************************************************************)
MaxEntrants == 5

Names == <<"A", "B", "C", "D", "E", "F">>

Entrants(n) == SubSeq(Names, 1, n)

RECURSIVE Pow2(_)
Pow2(k) == IF k = 0 THEN 1 ELSE 2 * Pow2(k - 1)

RECURSIVE LeastExp(_, _)
LeastExp(n, k) == IF Pow2(k) >= n THEN k ELSE LeastExp(n, k + 1)

\* A buggy logarithm that rounds down instead of up.
CeilLog2_Floor(n) == IF Pow2(LeastExp(n, 0)) = n THEN LeastExp(n, 0) ELSE LeastExp(n, 0) - 1

\* math.ceil(math.log2(n)) for n >= 1: the least k with 2^k >= n (log2 is
\* exact on the powers of two and the list lengths are far below 2^53).
CeilLog2(n) == LeastExp(n, 0)

\* next_power = 2 ** math.ceil(math.log2(len(...)))
next_power(n) == Pow2(CeilLog2(n))

\* a & b on Python integers, for a >= 0 and b >= -1 (-1 is all ones).
RECURSIVE BitAnd(_, _)
BitAnd(a, b) ==
    IF b = -1 THEN a
    ELSE IF a = 0 \/ b = 0 THEN 0
    ELSE (a % 2) * (b % 2) + 2 * BitAnd(a \div 2, b \div 2)

\* while len(self.players) & (len(self.players) - 1) != 0
EnginePadGuard(players) == BitAnd(Len(players), Len(players) - 1) # 0

\* f"Bye{len(padded_agents)}"
ByeName(k) == "Bye" \o ToString(k)

\* The part of each routine that runs before its loop.
PadEntry(routine, b) ==
    IF routine = "bracket" /\ Len(b.list) = 0
    THEN [b EXCEPT !.pc = "done", !.list = <<"phi4", "phi4">>]
    ELSE IF routine = "bracket" /\ Len(b.list) = 1
    THEN [b EXCEPT !.pc = "done", !.list = Append(@, @[1])]
    ELSE IF routine = "manager" /\ Len(b.list) <= 1
    THEN [b EXCEPT !.pc = "done",
                   !.list = IF Len(@) = 0 THEN <<"Bye", "Bye">> ELSE Append(@, "Bye")]
    ELSE IF routine = "engine"
    THEN [b EXCEPT !.pc = "loop"]
    ELSE [b EXCEPT !.pc = "loop", !.next_power = next_power(Len(b.list))]

\* The loop condition of each routine.
PadGuard(routine, b) ==
    IF routine = "engine" THEN EnginePadGuard(b.list) ELSE Len(b.list) < b.next_power

\* What random.choice may draw from, as indices into the list.
PadChoices(routine, list) ==
    IF routine = "bracket" THEN 1 .. (Len(list) \div 2)
    ELSE IF routine = "engine" THEN 1 .. Len(list)
    ELSE {0}

\* One iteration of the loop; i is the index random.choice drew.
PadStep(routine, b, i) ==
    [b EXCEPT !.list = IF routine = "manager" THEN Append(@, ByeName(Len(@)))
                       ELSE Append(@, @[i])]

othersPad == <<board, game, ret, pg, cfg, mt, eng, tour, log>>

\* run_tournament refuses fewer than two players, so the engine's loop is
\* entered with at least two.
InitPad ==
    /\ obj \in {"bracket", "manager", "engine"}
    /\ \E n \in 0 .. MaxEntrants :
          /\ obj = "engine" => n >= 2
          /\ br = [pc |-> "entry", entrants |-> Entrants(n), list |-> Entrants(n),
                   next_power |-> 0]
    /\ board = None /\ game = None /\ ret = None /\ pg = None /\ cfg = None
    /\ mt = None /\ eng = None /\ tour = None /\ log = None

PadEnter ==
    /\ br.pc = "entry"
    /\ br' = PadEntry(obj, br)
    /\ UNCHANGED <<obj, othersPad>>

PadAppend(i) ==
    /\ br.pc = "loop" /\ PadGuard(obj, br)
    /\ i \in PadChoices(obj, br.list)
    /\ br' = PadStep(obj, br, i)
    /\ UNCHANGED <<obj, othersPad>>

PadExit ==
    /\ br.pc = "loop" /\ ~PadGuard(obj, br)
    /\ br' = [br EXCEPT !.pc = "done"]
    /\ UNCHANGED <<obj, othersPad>>

NextPad ==
    \/ PadEnter
    \/ \E i \in 0 .. 2 * MaxEntrants : PadAppend(i)
    \/ PadExit

SpecPad == InitPad /\ [][NextPad]_vars

\* The routine runs on while it has a step to take.
SpecPadFair == SpecPad /\ WF_vars(NextPad)

(***************************************************************************)
(* C8: bracket padding always terminates, and the padded bracket has the   *)
(* smallest power-of-two size that is >= max(2, n), with the n entrants,   *)
(* in their order, as its first n slots (for the engine's loop: n >= 2).   *)
(***************************************************************************)
IsPowerOfTwo(m) == \E k \in 0 .. m : Pow2(k) = m

C8_Target(n) ==
    CHOOSE m \in 2 .. 2 * (n + 1) :
        /\ IsPowerOfTwo(m) /\ m >= n
        /\ \A q \in 2 .. m - 1 : ~(IsPowerOfTwo(q) /\ q >= n)

C8_Padded ==
    br.pc = "done" =>
        /\ Len(br.list) = C8_Target(Len(br.entrants))
        /\ SubSeq(br.list, 1, Len(br.entrants)) = br.entrants

C8_PaddingTerminates ==
    /\ []C8_Padded
    /\ (br.pc = "entry") ~> (br.pc = "done")

\* Five entrants were padded to eight by three appended duplicates.
C8_Witness ==
    /\ obj = "engine" /\ br.pc = "done"
    /\ Len(br.entrants) = 5 /\ Len(br.list) = 8

\* Three agents were padded to four by one bye agent.
C8_WitnessManager ==
    /\ obj = "manager" /\ br.pc = "done"
    /\ Len(br.entrants) = 3 /\ br.list = <<"A", "B", "C", "Bye3">>

(***************************************************************************)
(* TournamentEngine._run_single_elimination.  A _play_match call is one    *)
(* step, taken with any result the call can return: the match winner has   *)
(* wins_needed game wins, the loser fewer, and any number of drawn games   *)
(* up to MaxDraws were played besides.                                     *)
(***************************************************************************)
MaxElim == 4

MaxDraws == 1

BestOfs == {1, 3}

\* The frame of a _play_match call at the exit of its loop.
MatchOutcome(c, player1, player2, p1_wins, p2_wins, draws) ==
    [StartMatch(c, player1, player2) EXCEPT
        !.player1_wins = p1_wins, !.player2_wins = p2_wins,
        !.games = p1_wins + p2_wins + draws,
        !.odd = (p1_wins + p2_wins + draws) % 2 = 0]

\* The scores with which the loop of _play_match exits.
FinalScores(c) ==
    LET wins_needed == (c.best_of + 1) \div 2
    IN {sc \in (0 .. wins_needed) \X (0 .. wins_needed) :
            (sc[1] = wins_needed) # (sc[2] = wins_needed)}

NewTour ==
    [pc |-> "pad", current_round |-> <<>>, next_round |-> <<>>, i |-> 0,
     round_num |-> 0, champion |-> None]

\* Line 145 and the entry of a round (lines 148-153).
ElimFirstRound(t, players) ==
    [t EXCEPT !.pc = "pairs", !.current_round = players, !.next_round = <<>>,
              !.i = 0, !.round_num = 1]

\* player2 = current_round[i + 1] if i + 1 < len(current_round) else player1
ElimPlayer2(t) ==
    IF t.i + 1 < Len(t.current_round) THEN t.current_round[t.i + 2]
    ELSE t.current_round[t.i + 1]

\* Lines 165-174: the round is over.
ElimEndRound(t) ==
    IF Len(t.next_round) > 1
    THEN [t EXCEPT !.current_round = t.next_round, !.next_round = <<>>, !.i = 0,
                   !.round_num = @ + 1]
    ELSE [t EXCEPT !.current_round = t.next_round, !.next_round = <<>>,
                   !.round_num = @ + 1, !.pc = "done", !.champion = t.next_round[1]]

othersElim == <<board, game, ret, pg, mt, br, log>>

InitElim ==
    /\ obj = "_run_single_elimination"
    /\ \E b \in BestOfs : cfg = [NewConfig(b) EXCEPT !.validated = TRUE]
    /\ \E n \in 2 .. MaxElim : eng = NewEngine(Entrants(n))
    /\ tour = NewTour
    /\ board = None /\ game = None /\ ret = None /\ pg = None
    /\ mt = None /\ br = None /\ log = None

ElimPad(i) ==
    /\ tour.pc = "pad" /\ EnginePadGuard(eng.players)
    /\ i \in 1 .. Len(eng.players)
    /\ eng' = [eng EXCEPT !.players = Append(@, @[i])]
    /\ UNCHANGED <<obj, cfg, tour, othersElim>>

ElimStart ==
    /\ tour.pc = "pad" /\ ~EnginePadGuard(eng.players)
    /\ tour' = ElimFirstRound(tour, eng.players)
    /\ UNCHANGED <<obj, cfg, eng, othersElim>>

ElimMatch(sc, draws) ==
    /\ tour.pc = "pairs" /\ tour.i < Len(tour.current_round)
    /\ tour.current_round[tour.i + 1] # ElimPlayer2(tour)
    /\ sc \in FinalScores(cfg)
    /\ LET m == MatchOutcome(cfg, tour.current_round[tour.i + 1], ElimPlayer2(tour),
                             sc[1], sc[2], draws)
       IN /\ eng' = MatchReturnEngine(eng, m)
          /\ tour' = [tour EXCEPT !.next_round = Append(@, MatchWinner(m)),
                                  !.i = @ + 2]
    /\ UNCHANGED <<obj, cfg, othersElim>>

ElimBye ==
    /\ tour.pc = "pairs" /\ tour.i < Len(tour.current_round)
    /\ tour.current_round[tour.i + 1] = ElimPlayer2(tour)
    /\ tour' = [tour EXCEPT !.next_round = Append(@, tour.current_round[tour.i + 1]),
                            !.i = @ + 2]
    /\ UNCHANGED <<obj, cfg, eng, othersElim>>

ElimRoundEnd ==
    /\ tour.pc = "pairs" /\ tour.i >= Len(tour.current_round)
    /\ tour' = ElimEndRound(tour)
    /\ UNCHANGED <<obj, cfg, eng, othersElim>>

NextElim ==
    \/ \E i \in 1 .. 2 * MaxElim : ElimPad(i)
    \/ ElimStart
    \/ \E sc \in (0 .. MaxBestOf) \X (0 .. MaxBestOf), draws \in 0 .. MaxDraws :
          ElimMatch(sc, draws)
    \/ ElimBye
    \/ ElimRoundEnd

SpecElim == InitElim /\ [][NextElim]_vars

(***************************************************************************)
(* C9: single elimination is a knockout: a player who lost a match is      *)
(* eliminated, so when the tournament is over the champion's standings     *)
(* show no match loss and no player's standings show more than one loss.   *)
(***************************************************************************)
C9_Knockout ==
    tour.pc = "done" =>
        /\ eng.standings[tour.champion].losses = 0
        /\ \A p \in DOMAIN eng.standings : eng.standings[p].losses <= 1

(***************************************************************************)
(* Round robin.                                                            *)
(*   "_run_round_robin" : TournamentEngine (tournament_system.py)          *)
(*   "run_round_robin"  : TournamentManager (RockPaperScissors)            *)
(* A match is one step, taken with any result the match can return.        *)
(***************************************************************************)
MaxRR == 4

MaxRounds == 2

\* itertools.combinations(seq, 2): the pairs of positions i < j in
\* lexicographic order.
RECURSIVE CombFrom(_, _, _)
CombFrom(seq, i, j) ==
    IF i >= Len(seq) THEN <<>>
    ELSE IF j > Len(seq) THEN CombFrom(seq, i + 1, i + 2)
    ELSE << <<seq[i], seq[j]>> >> \o CombFrom(seq, i, j + 1)

\* A buggy pairing that leaves out the first pair.
combinations2_SkipFirst(seq) == CombFrom(seq, 1, 3)

combinations2(seq) == CombFrom(seq, 1, 2)

\* TournamentScorer.__init__ / reset_scores.
NewScorer(models) ==
    [models |-> models,
     wins |-> [m \in Range(models) |-> 0],
     losses |-> [m \in Range(models) |-> 0],
     draws |-> [m \in Range(models) |-> 0],
     matches_played |-> [m \in Range(models) |-> 0]]

\* TournamentScorer.record_match with results "win", "loss" or "draw".
record_match(sc, player1, player2, result1, result2) ==
    LET a == [sc EXCEPT !.matches_played[player1] = @ + 1]
        b == [a EXCEPT !.matches_played[player2] = @ + 1]
        c == IF result1 = "win" THEN [b EXCEPT !.wins[player1] = @ + 1]
             ELSE IF result1 = "loss" THEN [b EXCEPT !.losses[player1] = @ + 1]
             ELSE [b EXCEPT !.draws[player1] = @ + 1]
    IN IF result2 = "win" THEN [c EXCEPT !.wins[player2] = @ + 1]
       ELSE IF result2 = "loss" THEN [c EXCEPT !.losses[player2] = @ + 1]
       ELSE [c EXCEPT !.draws[player2] = @ + 1]

\* The winner TournamentManager._play_match reports for the final scores.
RPS_match_winner(agent1, agent2, agent1_score, agent2_score) ==
    IF agent1_score > agent2_score THEN agent1
    ELSE IF agent2_score > agent1_score THEN agent2
    ELSE "Draw"

\* Lines 93-98 of run_round_robin: the scorer after a match with that winner.
RR_record(sc, agent1, agent2, winner) ==
    IF winner = agent1 THEN record_match(sc, agent1, agent2, "win", "loss")
    ELSE IF winner = agent2 THEN record_match(sc, agent1, agent2, "loss", "win")
    ELSE record_match(sc, agent1, agent2, "draw", "draw")

\* Sort keys as tuples of naturals; a win rate is kept as <<wins, matches>>.
ScorerPoints(sc, m) == sc.wins[m] * 3 + sc.draws[m]

RateLess(sc, a, b) ==
    LET ma == IF sc.matches_played[a] > 0 THEN sc.matches_played[a] ELSE 1
        mb == IF sc.matches_played[b] > 0 THEN sc.matches_played[b] ELSE 1
        wa == IF sc.matches_played[a] > 0 THEN sc.wins[a] ELSE 0
        wb == IF sc.matches_played[b] > 0 THEN sc.wins[b] ELSE 0
    IN wa * mb < wb * ma

\* The leaderboard key of a is smaller than that of b.
ScorerLess(sc, a, b) ==
    \/ ScorerPoints(sc, a) < ScorerPoints(sc, b)
    \/ /\ ScorerPoints(sc, a) = ScorerPoints(sc, b)
       /\ \/ RateLess(sc, a, b)
          \/ ~RateLess(sc, b, a) /\ sc.wins[a] < sc.wins[b]

\* get_champion: the head of the stable descending sort, i.e. the first
\* model no other model beats; "" for no models.
get_champion(sc) ==
    IF Len(sc.models) = 0 THEN ""
    ELSE sc.models[CHOOSE i \in 1 .. Len(sc.models) :
                       /\ \A j \in 1 .. Len(sc.models) :
                             ~ScorerLess(sc, sc.models[i], sc.models[j])
                       /\ \A j \in 1 .. i - 1 :
                             ScorerLess(sc, sc.models[j], sc.models[i])]

\* The key of line 193 for a is smaller than that for b.
StandingLess(st, a, b) ==
    \/ st[a].points < st[b].points
    \/ st[a].points = st[b].points /\ st[a].games_won < st[b].games_won

\* max(self.standings.items(), key=...): the first maximal entry in the
\* order the standings were inserted.
EngineChampion(e) ==
    e.players[CHOOSE i \in 1 .. Len(e.players) :
                  /\ \A j \in 1 .. Len(e.players) :
                        ~StandingLess(e.standings, e.players[i], e.players[j])
                  /\ \A j \in 1 .. i - 1 :
                        StandingLess(e.standings, e.players[j], e.players[i])]

NewRR ==
    [pc |-> "start", pairings |-> <<>>, k |-> 0, total_matches |-> 0,
     champion |-> None]

othersRR == <<board, game, ret, pg, mt, br>>

InitRR ==
    /\ obj \in {"_run_round_robin", "run_round_robin"}
    /\ \E n \in 0 .. MaxRR :
          IF obj = "_run_round_robin"
          THEN /\ n >= 2
               /\ eng = NewEngine(Entrants(n))
               /\ \E b \in BestOfs : cfg = [NewConfig(b) EXCEPT !.validated = TRUE]
          ELSE /\ eng = [models |-> Entrants(n)]
               /\ \E r \in 1 .. MaxRounds : cfg = [rounds_per_match |-> r]
    /\ tour = NewRR
    /\ log = <<>>
    /\ board = None /\ game = None /\ ret = None /\ pg = None
    /\ mt = None /\ br = None

\* Up to the loop over the pairings.
RRStart ==
    /\ tour.pc = "start"
    /\ IF obj = "_run_round_robin"
       THEN /\ tour' = [tour EXCEPT !.pc = "matches",
                                    !.pairings = combinations2(eng.players),
                                    !.total_matches = Len(combinations2(eng.players))]
            /\ eng' = eng
       ELSE /\ tour' = [tour EXCEPT !.pc = "matches",
                                    !.pairings = combinations2(eng.models),
                                    !.total_matches = Len(combinations2(eng.models))]
            /\ eng' = NewScorer(eng.models)
    /\ UNCHANGED <<obj, cfg, log, othersRR>>

EngineRRMatch(sc, draws) ==
    /\ obj = "_run_round_robin"
    /\ tour.pc = "matches" /\ tour.k < Len(tour.pairings)
    /\ sc \in FinalScores(cfg)
    /\ LET pair == tour.pairings[tour.k + 1]
       IN eng' = MatchReturnEngine(eng, MatchOutcome(cfg, pair[1], pair[2],
                                                     sc[1], sc[2], draws))
    /\ tour' = [tour EXCEPT !.k = @ + 1]
    /\ UNCHANGED <<obj, cfg, log, othersRR>>

ManagerRRMatch(agent1_score, agent2_score) ==
    /\ obj = "run_round_robin"
    /\ tour.pc = "matches" /\ tour.k < Len(tour.pairings)
    /\ agent1_score + agent2_score <= cfg.rounds_per_match
    /\ LET pair == tour.pairings[tour.k + 1]
       IN /\ log' = Append(log, [i |-> tour.k + 1, player1 |-> pair[1],
                                 player2 |-> pair[2]])
          /\ eng' = RR_record(eng, pair[1], pair[2],
                              RPS_match_winner(pair[1], pair[2],
                                               agent1_score, agent2_score))
    /\ tour' = [tour EXCEPT !.k = @ + 1]
    /\ UNCHANGED <<obj, cfg, othersRR>>

RREnd ==
    /\ tour.pc = "matches" /\ tour.k >= Len(tour.pairings)
    /\ tour' = [tour EXCEPT !.pc = "done",
                            !.champion = IF obj = "_run_round_robin"
                                         THEN EngineChampion(eng)
                                         ELSE get_champion(eng)]
    /\ UNCHANGED <<obj, cfg, eng, log, othersRR>>

NextRR ==
    \/ RRStart
    \/ \E sc \in (0 .. MaxBestOf) \X (0 .. MaxBestOf), draws \in 0 .. MaxDraws :
          EngineRRMatch(sc, draws)
    \/ \E s1 \in 0 .. MaxRounds, s2 \in 0 .. MaxRounds : ManagerRRMatch(s1, s2)
    \/ RREnd

SpecRR == InitRR /\ [][NextRR]_vars

(***************************************************************************)
(* C10: in a round robin over n players with distinct names every          *)
(* unordered pair of players meets in exactly one match, n(n-1)/2 matches  *)
(* are played in total and every player plays exactly n-1 matches.         *)
(***************************************************************************)
RRPlayers == IF obj = "_run_round_robin" THEN eng.players ELSE eng.models

\* The matches played so far, from the engine's match list or the
\* manager's match-start records.
RRPlayed == IF obj = "_run_round_robin" THEN eng.matches ELSE log

RRMeetings(a, b) ==
    {i \in 1 .. Len(RRPlayed) : {RRPlayed[i].player1, RRPlayed[i].player2} = {a, b}}

RRMatchesOf(a) ==
    {i \in 1 .. Len(RRPlayed) : a \in {RRPlayed[i].player1, RRPlayed[i].player2}}

RRMatchesPlayed(a) ==
    IF obj = "_run_round_robin" THEN eng.standings[a].matches_played
    ELSE eng.matches_played[a]

C10_EveryoneOnce ==
    LET n == Len(RRPlayers)
    IN /\ tour.pc # "start" =>
             \A a \in Range(RRPlayers), b \in Range(RRPlayers) :
                 /\ Cardinality(RRMeetings(a, b)) <= 1
                 /\ a = b => RRMeetings(a, b) = {}
       /\ tour.pc = "done" =>
             /\ \A a \in Range(RRPlayers), b \in Range(RRPlayers) :
                    a # b => Cardinality(RRMeetings(a, b)) = 1
             /\ Len(RRPlayed) = (n * (n - 1)) \div 2
             /\ tour.total_matches = (n * (n - 1)) \div 2
             /\ \A a \in Range(RRPlayers) :
                    /\ Cardinality(RRMatchesOf(a)) = n - 1
                    /\ RRMatchesPlayed(a) = n - 1

\* Four players finished an engine round robin of six matches.
C10_Witness ==
    /\ obj = "_run_round_robin" /\ tour.pc = "done"
    /\ Len(eng.players) = 4 /\ Len(eng.matches) = 6

\* Four agents finished a manager round robin of six matches.
C10_WitnessManager ==
    /\ obj = "run_round_robin" /\ tour.pc = "done"
    /\ Len(eng.models) = 4 /\ Len(log) = 6

(***************************************************************************)
(* TournamentEngine._run_swiss and _generate_swiss_pairings.  The players  *)
(* were added in the order of Names (shuffle_players only renames them);   *)
(* the shuffle of round 1 may give any order.  Fields of more than         *)
(* MaxElim players play best-of-1 matches, and of their round-1 shuffles   *)
(* one is taken for each set of pairs (the one that lists every pair, and  *)
(* the pairs, in the order of Names).                                      *)
(***************************************************************************)
MaxSwiss == 6

DefaultMaxRounds == 10

SwissMaxRounds == {1, 2, DefaultMaxRounds}

NewSwissConfig(best_of, max_rounds) ==
    [raw |-> best_of, best_of |-> post_init(best_of), validated |-> TRUE,
     max_rounds |-> max_rounds]

\* A buggy round count that ignores max_rounds.
SwissRounds_NoMin(c, n) == CeilLog2(n)

\* min(self.config.max_rounds, math.ceil(math.log2(len(self.players))))
SwissRounds(c, n) == IF c.max_rounds < CeilLog2(n) THEN c.max_rounds ELSE CeilLog2(n)

\* The orders random.shuffle can leave a list in.
Shuffles(seq) ==
    {p \in [1 .. Len(seq) -> Range(seq)] : \A i, j \in 1 .. Len(seq) : p[i] = p[j] => i = j}

IndexOf(seq, x) == CHOOSE i \in 1 .. Len(seq) : seq[i] = x

\* The round-1 shuffles of the list seq that are explored.
FirstRoundShuffles(seq) ==
    IF Len(seq) <= MaxElim THEN Shuffles(seq)
    ELSE {p \in Shuffles(seq) :
             \A k \in 1 .. (Len(seq) \div 2) :
                 /\ IndexOf(seq, p[2 * k - 1]) < IndexOf(seq, p[2 * k])
                 /\ k > 1 => IndexOf(seq, p[2 * k - 3]) < IndexOf(seq, p[2 * k - 1])}

\* [(players[i], players[i+1]) for i in range(0, len(players)-1, 2)]
FirstRoundPairs(players) ==
    [k \in 1 .. (Len(players) \div 2) |-> <<players[2 * k - 1], players[2 * k]>>]

\* The sort key of lines 452-456 of a is greater than that of b.
SwissKeyGreater(st, a, b) ==
    \/ st[a].points > st[b].points
    \/ st[a].points = st[b].points /\ st[a].games_won > st[b].games_won

\* sorted(self.standings.items(), key=..., reverse=True): descending and
\* stable, the standings being in the order the players were added.
players_by_points(e) ==
    LET names == e.players
        rank(p) == 1 + Cardinality({q \in Range(names) :
                         \/ SwissKeyGreater(e.standings, q, p)
                         \/ /\ ~SwissKeyGreater(e.standings, p, q)
                            /\ IndexOf(names, q) < IndexOf(names, p)})
    IN [k \in 1 .. Len(names) |-> CHOOSE p \in Range(names) : rank(p) = k]

RemoveAt(seq, i) == SubSeq(seq, 1, i - 1) \o SubSeq(seq, i + 1, Len(seq))

\* The index in unpaired of the opponent the for/else of lines 465-478 picks.
SwissOpponent(st, unpaired) ==
    LET fresh == {i \in 2 .. Len(unpaired) :
                     \A j \in 1 .. Len(st[unpaired[1]].opponents) :
                         st[unpaired[1]].opponents[j] # unpaired[i]}
    IN IF fresh # {} THEN CHOOSE i \in fresh : \A j \in fresh : i <= j ELSE 2

\* The while loop of lines 461-478: <<pairings, unpaired>> at its exit.
RECURSIVE SwissPairLoop(_, _, _)
SwissPairLoop(st, pairings, unpaired) ==
    IF Len(unpaired) < 2 THEN <<pairings, unpaired>>
    ELSE LET i == SwissOpponent(st, unpaired)
         IN SwissPairLoop(st, Append(pairings, <<unpaired[1], unpaired[i]>>),
                          RemoveAt(RemoveAt(unpaired, i), 1))

\* Lines 480-483: the bye.
SwissBye(st, unpaired) ==
    IF Len(unpaired) > 0 THEN [st EXCEPT ![unpaired[1]].points = @ + 2] ELSE st

\* The key of lines 217-218 of a is smaller than that of b.
SwissFinalLess(st, a, b) ==
    \/ st[a].points < st[b].points
    \/ /\ st[a].points = st[b].points
       /\ \/ st[a].games_won < st[b].games_won
          \/ st[a].games_won = st[b].games_won /\ st[a].wins < st[b].wins

SwissChampion(e) ==
    e.players[CHOOSE i \in 1 .. Len(e.players) :
                  /\ \A j \in 1 .. Len(e.players) :
                        ~SwissFinalLess(e.standings, e.players[i], e.players[j])
                  /\ \A j \in 1 .. i - 1 :
                        SwissFinalLess(e.standings, e.players[j], e.players[i])]

NewSwiss ==
    [pc |-> "start", num_rounds |-> 0, round_num |-> 0, pairings |-> <<>>, i |-> 0,
     swiss_pairings |-> <<>>, champion |-> None]

\* The end of an iteration of the loop over the rounds, round_num being the
\* round that follows.
SwissNextRound(t, e, round_num) ==
    IF round_num <= t.num_rounds
    THEN [t EXCEPT !.pc = "pairing", !.round_num = round_num]
    ELSE [t EXCEPT !.pc = "done", !.round_num = round_num, !.champion = SwissChampion(e)]

othersSwiss == <<board, game, ret, pg, mt, br, log>>

InitSwiss ==
    /\ obj = "_run_swiss"
    /\ \E n \in 2 .. MaxSwiss, b \in BestOfs, r \in SwissMaxRounds :
          /\ n > MaxElim => b = 1
          /\ eng = NewEngine(Entrants(n))
          /\ cfg = NewSwissConfig(b, r)
    /\ tour = NewSwiss
    /\ board = None /\ game = None /\ ret = None /\ pg = None
    /\ mt = None /\ br = None /\ log = None

SwissStart ==
    /\ tour.pc = "start"
    /\ tour' = SwissNextRound([tour EXCEPT !.num_rounds =
                                   SwissRounds(cfg, Len(eng.players))], eng, 1)
    /\ UNCHANGED <<obj, cfg, eng, othersSwiss>>

SwissPairFirst ==
    /\ tour.pc = "pairing" /\ tour.round_num = 1
    /\ \E players \in FirstRoundShuffles(eng.players) :
          tour' = [tour EXCEPT !.pc = "matches", !.i = 0,
                               !.pairings = FirstRoundPairs(players),
                               !.swiss_pairings = Append(@, FirstRoundPairs(players))]
    /\ UNCHANGED <<obj, cfg, eng, othersSwiss>>

SwissPairLater ==
    /\ tour.pc = "pairing" /\ tour.round_num # 1
    /\ LET out == SwissPairLoop(eng.standings, <<>>, players_by_points(eng))
       IN /\ eng' = [eng EXCEPT !.standings = SwissBye(@, out[2])]
          /\ tour' = [tour EXCEPT !.pc = "matches", !.i = 0, !.pairings = out[1],
                                  !.swiss_pairings = Append(@, out[1])]
    /\ UNCHANGED <<obj, cfg, othersSwiss>>

SwissMatch(sc) ==
    /\ tour.pc = "matches" /\ tour.i < Len(tour.pairings)
    /\ sc \in FinalScores(cfg)
    /\ LET pair == tour.pairings[tour.i + 1]
       IN eng' = MatchReturnEngine(eng, MatchOutcome(cfg, pair[1], pair[2],
                                                     sc[1], sc[2], 0))
    /\ tour' = [tour EXCEPT !.i = @ + 1]
    /\ UNCHANGED <<obj, cfg, othersSwiss>>

SwissRoundEnd ==
    /\ tour.pc = "matches" /\ tour.i >= Len(tour.pairings)
    /\ tour' = SwissNextRound(tour, eng, tour.round_num + 1)
    /\ UNCHANGED <<obj, cfg, eng, othersSwiss>>

NextSwiss ==
    \/ SwissStart
    \/ SwissPairFirst
    \/ SwissPairLater
    \/ \E sc \in (0 .. MaxBestOf) \X (0 .. MaxBestOf) : SwissMatch(sc)
    \/ SwissRoundEnd

SpecSwiss == InitSwiss /\ [][NextSwiss]_vars

(***************************************************************************)
(* C11: in a Swiss tournament no two players are paired against each other *)
(* more than once in the whole tournament.                                 *)
(***************************************************************************)
SwissMeetings(a, b) ==
    {rk \in {x \in (1 .. Len(tour.swiss_pairings)) \X (1 .. MaxSwiss) :
                 x[2] <= Len(tour.swiss_pairings[x[1]])} :
        {tour.swiss_pairings[rk[1]][rk[2]][1], tour.swiss_pairings[rk[1]][rk[2]][2]}
            = {a, b}}

C11_NoRematch ==
    \A a \in Range(eng.players), b \in Range(eng.players) :
        a # b => Cardinality(SwissMeetings(a, b)) <= 1

(***************************************************************************)
(* C12: a Swiss tournament over n players with distinct names plays        *)
(* exactly min(max_rounds, ceil(log2 n)) rounds, and the pairings of each  *)
(* round are disjoint pairs of different players, floor(n/2) of them.      *)
(***************************************************************************)
C12_Log2(n) == CHOOSE k \in 0 .. n : Pow2(k) >= n /\ (k > 0 => Pow2(k - 1) < n)

C12_RoundOk(round) ==
    /\ Len(round) = Len(eng.players) \div 2
    /\ \A k \in 1 .. Len(round) :
          /\ round[k][1] # round[k][2]
          /\ {round[k][1], round[k][2]} \subseteq Range(eng.players)
    /\ \A k, l \in 1 .. Len(round) :
          k # l => {round[k][1], round[k][2]} \cap {round[l][1], round[l][2]} = {}

C12_WitnessCut ==
    /\ tour.pc = "done" /\ Len(eng.players) = 6 /\ cfg.max_rounds = 2
    /\ Len(tour.swiss_pairings) = 2

(***************************************************************************)
(* ConnectFour (connect_four.py).  board maps <<row, col>> to a cell, row  *)
(* 0 being the top row; a move is a column, kept as [isInt, v] so that an  *)
(* agent can also return something that is not an int.                     *)
(***************************************************************************)
CFSize == 3

CFCells(g) == (0 .. g.height - 1) \X (0 .. g.width - 1)

NewConnectFour(width, height, win_length) ==
    [width |-> width, height |-> height, win_length |-> win_length,
     board |-> [c \in (0 .. height - 1) \X (0 .. width - 1) |-> Empty],
     move_count |-> 0, player_symbols |-> <<"R", "Y">>]

Column(v) == [isInt |-> TRUE, v |-> v]

NotAColumn == [isInt |-> FALSE, v |-> 0]

CF_is_valid_move(g, move) ==
    IF ~move.isInt THEN FALSE
    ELSE IF ~(0 <= move.v /\ move.v < g.width) THEN FALSE
    ELSE g.board[<<0, move.v>>] = Empty

\* make_move: <<game after the call, value returned>>.
CF_make_move(g, move, player) ==
    IF ~move.isInt THEN <<g, FALSE>>
    ELSE IF ~CF_is_valid_move(g, move) THEN <<g, FALSE>>
    ELSE LET empties == {row \in 0 .. g.height - 1 : g.board[<<row, move.v>>] = Empty}
         IN IF empties = {} THEN <<g, FALSE>>
            ELSE LET row == CHOOSE r \in empties : \A q \in empties : q <= r
                 IN <<[g EXCEPT !.board[<<row, move.v>>] = player,
                                !.move_count = @ + 1], TRUE>>

CF_check_win(g, player) ==
    LET K == g.win_length
        run(row, col, dr, dc) ==
            \A i \in 0 .. K - 1 : g.board[<<row + i * dr, col + i * dc>>] = player
    IN \/ \E row \in 0 .. g.height - 1, col \in 0 .. g.width - K : run(row, col, 0, 1)
       \/ \E row \in 0 .. g.height - K, col \in 0 .. g.width - 1 : run(row, col, 1, 0)
       \/ \E row \in 0 .. g.height - K, col \in 0 .. g.width - K : run(row, col, 1, 1)
       \/ \E row \in 0 .. g.height - K, col \in K - 1 .. g.width - 1 :
              run(row, col, 1, -1)

RECURSIVE CF_FirstWinner(_, _)
CF_FirstWinner(g, i) ==
    IF i > Len(g.player_symbols) THEN None
    ELSE IF CF_check_win(g, g.player_symbols[i]) THEN g.player_symbols[i]
    ELSE CF_FirstWinner(g, i + 1)

\* is_game_over: <<is_over, winner>>.
CF_is_game_over(g) ==
    IF CF_FirstWinner(g, 1) # None THEN <<TRUE, CF_FirstWinner(g, 1)>>
    ELSE IF g.move_count >= g.width * g.height THEN <<TRUE, None>>
    ELSE <<FALSE, None>>

RECURSIVE CF_ValidFrom(_, _)
CF_ValidFrom(g, col) ==
    IF col >= g.width THEN <<>>
    ELSE IF CF_is_valid_move(g, Column(col))
         THEN <<Column(col)>> \o CF_ValidFrom(g, col + 1)
         ELSE CF_ValidFrom(g, col + 1)

CF_get_valid_moves(g) == CF_ValidFrom(g, 0)

(***************************************************************************)
(* _play_single_game on a ConnectFour made by game_factory.  _play_match   *)
(* passes the symbols X (first player) and O (second player) whatever the  *)
(* game is.                                                                *)
(***************************************************************************)
\* Lines 352-380 with game a ConnectFour.
CF_SG_AfterMark(g, f) ==
    LET over == CF_is_game_over(g)
        h == [f EXCEPT !.placed = f.placed + 1, !.last = f.current_player]
    IN IF over[1]
       THEN [h EXCEPT !.pc = "returned",
                      !.result = IF over[2] # None THEN "win" ELSE "draw",
                      !.winner = WinnerName(over[2])]
       ELSE [h EXCEPT !.current_player = Other(f.current_player),
                      !.move_count = f.move_count + 1]

\* One iteration whose agent returned move: the pair <<game, frame>>.
CF_SG_Try(g, f, move) ==
    LET r == CF_make_move(g, move, f.current_player)
    IN IF ~r[2]
       THEN LET valid_moves == CF_get_valid_moves(g)
            IN IF valid_moves # <<>>
               THEN LET g1 == CF_make_move(g, valid_moves[1], f.current_player)[1]
                    IN <<g1, CF_SG_AfterMark(g1, f)>>
               ELSE <<g, SG_AfterLoop(f)>>
       ELSE <<r[1], CF_SG_AfterMark(r[1], f)>>

(***************************************************************************)
(* SpecAgnostic: one _play_single_game call of a match, on the game the    *)
(* factory made: a 3x3 GenericTicTacToe or a ConnectFour of CFSize columns *)
(* and rows with win_length 3.  max_moves is what get_game_config gives.   *)
(***************************************************************************)
othersAgnostic == <<board, ret, cfg, mt, eng, tour, br, log>>

InitAgnostic ==
    /\ obj \in {"GenericTicTacToe", "ConnectFour"}
    /\ game = IF obj = "GenericTicTacToe" THEN NewGame(3, 3)
              ELSE NewConnectFour(CFSize, CFSize, 3)
    /\ \E limit \in {MaxLimit, CFSize * CFSize, DefaultMaxMoves} : pg = NewFrame(limit)
    /\ board = None /\ ret = None /\ cfg = None /\ mt = None /\ eng = None
    /\ tour = None /\ br = None /\ log = None

AgnosticMoves == IF obj = "GenericTicTacToe" THEN MoveInputs(3)
                 ELSE {Column(v) : v \in -1 .. CFSize} \cup {NotAColumn}

AgnosticMove(move) ==
    /\ Iterating
    /\ LET out == IF obj = "GenericTicTacToe" THEN SG_Try(game, pg, move)
                  ELSE CF_SG_Try(game, pg, move)
       IN /\ game' = out[1]
          /\ pg' = [out[2] EXCEPT !.iters = pg.iters + 1]
    /\ UNCHANGED <<obj, othersAgnostic>>

AgnosticRaise ==
    /\ Iterating
    /\ game' = SG_Except(game, pg)[1]
    /\ pg' = [SG_Except(game, pg)[2] EXCEPT !.iters = pg.iters + 1]
    /\ UNCHANGED <<obj, othersAgnostic>>

AgnosticLimit ==
    /\ pg.pc = "loop" /\ ~LoopGuard(pg)
    /\ pg' = SG_AfterLoop(pg)
    /\ UNCHANGED <<obj, game, othersAgnostic>>

NextAgnostic ==
    \/ \E move \in AgnosticMoves : AgnosticMove(move)
    \/ AgnosticRaise
    \/ AgnosticLimit

SpecAgnostic == InitAgnostic /\ [][NextAgnostic]_vars

(***************************************************************************)
(* C13: with either game, when a player completes a winning line during   *)
(* _play_single_game the game ends at that move and that player's agent is *)
(* reported as the winner of the game.                                     *)
(***************************************************************************)
\* The symbol s has win_length marks in a row on the ConnectFour board.
CFHasRun(g, s) ==
    \E c \in CFCells(g), d \in Dirs :
        \A i \in 0 .. g.win_length - 1 :
            /\ <<c[1] + i * d[1], c[2] + i * d[2]>> \in CFCells(g)
            /\ g.board[<<c[1] + i * d[1], c[2] + i * d[2]>>] = s

C13_LineOf(s) ==
    IF obj = "GenericTicTacToe" THEN HasRun(game, s) ELSE CFHasRun(game, s)

C13_LineEndsGame ==
    \A s \in Symbols :
        C13_LineOf(s) => pg.pc = "returned" /\ pg.winner = WinnerName(s)

(***************************************************************************)
(* Rock Paper Scissors (RockPaperScissors/utils.py, tournament.py).        *)
(***************************************************************************)
Moves == {"rock", "paper", "scissors"}

\* A buggy rule table without scissors beating paper.
winning_combinations_NoScissors == {<<"rock", "scissors">>, <<"paper", "rock">>}

winning_combinations ==
    {<<"rock", "scissors">>, <<"paper", "rock">>, <<"scissors", "paper">>}

\* determine_winner: <<result for player 1, result for player 2>>.
determine_winner(move1, move2) ==
    IF move1 = move2 THEN <<"draw", "draw">>
    ELSE IF <<move1, move2>> \in winning_combinations THEN <<"win", "loss">>
    ELSE <<"loss", "win">>

(***************************************************************************)
(* TournamentManager._play_match between agent1 A and agent2 B, and the    *)
(* _play_single_round calls it makes.  asked holds, for every make_move    *)
(* call of the match in the order of the calls, the arguments the agent    *)
(* was given and its reply (a move, or "raised"); last is what the last    *)
(* _play_single_round returned.                                            *)
(***************************************************************************)
NewRPSMatch(num_rounds) ==
    [pc |-> "loop", num_rounds |-> num_rounds, round_num |-> 1,
     agent1_score |-> 0, agent2_score |-> 0,
     agent1_history |-> <<>>, agent2_history |-> <<>>,
     asked |-> <<>>, last |-> <<>>, winner |-> None]

\* A loop that plays one round too many.
RPSLoopGuard_OffByOne(f) == f.round_num <= f.num_rounds + 1

\* for round_num in range(1, num_rounds + 1)
RPSLoopGuard(f) == f.round_num <= f.num_rounds

\* agent1.make_move(round_num, agent2_history, agent1_history)
AskAgent1(f) ==
    [agent |-> "A", round_num |-> f.round_num,
     opponent_history |-> f.agent2_history, own_history |-> f.agent1_history,
     reply |-> None]

\* A buggy call that hands agent2 the two histories the wrong way round.
AskAgent2_Swapped(f) ==
    [agent |-> "B", round_num |-> f.round_num,
     opponent_history |-> f.agent2_history, own_history |-> f.agent1_history,
     reply |-> None]

\* agent2.make_move(round_num, agent1_history, agent2_history)
AskAgent2(f) ==
    [agent |-> "B", round_num |-> f.round_num,
     opponent_history |-> f.agent1_history, own_history |-> f.agent2_history,
     reply |-> None]

\* _play_single_round from the moves on (lines 392-406), then lines 304-313
\* of _play_match.
RPSAfterMoves(f, move1, move2) ==
    LET result == determine_winner(move1, move2)
    IN [f EXCEPT !.last = <<[move1 |-> move1, move2 |-> move2,
                             result1 |-> result[1], result2 |-> result[2]]>>,
                 !.agent1_score = IF result[1] = "win" THEN @ + 1 ELSE @,
                 !.agent2_score = IF result[1] = "win" THEN @
                                  ELSE IF result[1] = "loss" THEN @ + 1 ELSE @,
                 !.agent1_history = Append(@, move1),
                 !.agent2_history = Append(@, move2),
                 !.round_num = @ + 1]

\* Lines 322-345: the frame once the match result is returned.
RPSMatchReturn(f) ==
    [f EXCEPT !.pc = "returned",
              !.winner = RPS_match_winner("A", "B", f.agent1_score, f.agent2_score)]

othersRPS == <<board, game, ret, pg, cfg, eng, tour, br, log>>

InitRPS ==
    /\ obj = "RPS._play_match"
    /\ \E n \in 0 .. MaxRounds : mt = NewRPSMatch(n)
    /\ board = None /\ game = None /\ ret = None /\ pg = None /\ cfg = None
    /\ eng = None /\ tour = None /\ br = None /\ log = None

\* A round in which both agents return a move.
RPSRound(move1, move2) ==
    /\ mt.pc = "loop" /\ RPSLoopGuard(mt)
    /\ mt' = RPSAfterMoves([mt EXCEPT !.asked = @ \o
                                <<[AskAgent1(mt) EXCEPT !.reply = move1],
                                  [AskAgent2(mt) EXCEPT !.reply = move2]>>],
                           move1, move2)
    /\ UNCHANGED <<obj, othersRPS>>

\* A round in which agent1 raises: agent2 is not asked, random.choice
\* draws both moves.
RPSRoundRaise1(move1, move2) ==
    /\ mt.pc = "loop" /\ RPSLoopGuard(mt)
    /\ mt' = RPSAfterMoves([mt EXCEPT !.asked = Append(@,
                                [AskAgent1(mt) EXCEPT !.reply = "raised"])],
                           move1, move2)
    /\ UNCHANGED <<obj, othersRPS>>

\* A round in which agent2 raises after agent1 returned the move given:
\* random.choice draws both moves.
RPSRoundRaise2(given, move1, move2) ==
    /\ mt.pc = "loop" /\ RPSLoopGuard(mt)
    /\ mt' = RPSAfterMoves([mt EXCEPT !.asked = @ \o
                                <<[AskAgent1(mt) EXCEPT !.reply = given],
                                  [AskAgent2(mt) EXCEPT !.reply = "raised"]>>],
                           move1, move2)
    /\ UNCHANGED <<obj, othersRPS>>

RPSReturn ==
    /\ mt.pc = "loop" /\ ~RPSLoopGuard(mt)
    /\ mt' = RPSMatchReturn(mt)
    /\ UNCHANGED <<obj, othersRPS>>

NextRPS ==
    \/ \E move1 \in Moves, move2 \in Moves : RPSRound(move1, move2)
    \/ \E move1 \in Moves, move2 \in Moves : RPSRoundRaise1(move1, move2)
    \/ \E given \in Moves, move1 \in Moves, move2 \in Moves :
          RPSRoundRaise2(given, move1, move2)
    \/ RPSReturn

SpecRPS == InitRPS /\ [][NextRPS]_vars

(***************************************************************************)
(* C14: determine_winner implements the rock-paper-scissors rules: a draw  *)
(* exactly for equal moves, (win, loss) when move1 beats move2 (rock beats *)
(* scissors, paper beats rock, scissors beats paper), (loss, win)          *)
(* otherwise; swapping the arguments swaps the results; every move beats   *)
(* exactly one move and is beaten by exactly one move.                     *)
(***************************************************************************)
C14_Beats(m) == IF m = "rock" THEN "scissors" ELSE IF m = "paper" THEN "rock" ELSE "paper"

C14_Rules(m1, m2) ==
    LET r == determine_winner(m1, m2)
    IN /\ (r = <<"draw", "draw">>) <=> (m1 = m2)
       /\ (r = <<"win", "loss">>) <=> (m2 = C14_Beats(m1))
       /\ (r = <<"loss", "win">>) <=> (m1 = C14_Beats(m2))
       /\ determine_winner(m2, m1) = <<r[2], r[1]>>

C14_DetermineWinner ==
    /\ \A m1 \in Moves, m2 \in Moves : C14_Rules(m1, m2)
    /\ \A m \in Moves :
          /\ Cardinality({x \in Moves : determine_winner(m, x)[1] = "win"}) = 1
          /\ Cardinality({x \in Moves : determine_winner(m, x)[1] = "loss"}) = 1
    /\ mt.last # <<>> =>
          /\ C14_Rules(mt.last[1].move1, mt.last[1].move2)
          /\ <<mt.last[1].result1, mt.last[1].result2>>
                 = determine_winner(mt.last[1].move1, mt.last[1].move2)

\* A round of scissors against paper was won by agent1.
C14_Witness ==
    /\ mt.last # <<>>
    /\ mt.last[1] = [move1 |-> "scissors", move2 |-> "paper",
                     result1 |-> "win", result2 |-> "loss"]

(***************************************************************************)
(* C15: a match with num_rounds = N plays exactly N rounds: at the end the *)
(* two scores and the number of drawn rounds add up to N, both histories   *)
(* have length N, and the winner is the agent with more round wins, or     *)
(* "Draw" exactly when the scores are equal.                               *)
(***************************************************************************)
C15_Rounds(f, kind) ==
    {k \in 1 .. Len(f.agent1_history) :
        determine_winner(f.agent1_history[k], f.agent2_history[k])[1] = kind}

C15_MatchOfNRounds ==
    /\ Len(mt.agent1_history) <= mt.num_rounds
    /\ Len(mt.agent1_history) = mt.round_num - 1
    /\ mt.pc = "returned" =>
          /\ Len(mt.agent1_history) = mt.num_rounds
          /\ Len(mt.agent2_history) = mt.num_rounds
          /\ mt.agent1_score = Cardinality(C15_Rounds(mt, "win"))
          /\ mt.agent2_score = Cardinality(C15_Rounds(mt, "loss"))
          /\ mt.agent1_score + mt.agent2_score + Cardinality(C15_Rounds(mt, "draw"))
                 = mt.num_rounds
          /\ (mt.winner = "Draw") <=> (mt.agent1_score = mt.agent2_score)
          /\ (mt.winner = "A") <=> (mt.agent1_score > mt.agent2_score)
          /\ (mt.winner = "B") <=> (mt.agent2_score > mt.agent1_score)

\* A two-round match with one drawn round was won 1-0 by agent2.
C15_Witness ==
    /\ mt.pc = "returned" /\ mt.num_rounds = 2
    /\ mt.agent1_score = 0 /\ mt.agent2_score = 1 /\ mt.winner = "B"

(***************************************************************************)
(* C16: in round k each agent is asked for its move with exactly the k-1   *)
(* earlier moves of the match in round order, its own as own_history and   *)
(* the other agent's as opponent_history; round 1 starts with two empty    *)
(* histories, and no input contains a move of round k.                     *)
(***************************************************************************)
C16_Histories ==
    \A i \in 1 .. Len(mt.asked) :
        LET a == mt.asked[i]
            k == a.round_num
            mine == IF a.agent = "A" THEN mt.agent1_history ELSE mt.agent2_history
            theirs == IF a.agent = "A" THEN mt.agent2_history ELSE mt.agent1_history
        IN /\ k \in 1 .. mt.num_rounds
           /\ Len(a.own_history) = k - 1 /\ Len(a.opponent_history) = k - 1
           /\ a.own_history = SubSeq(mine, 1, k - 1)
           /\ a.opponent_history = SubSeq(theirs, 1, k - 1)

\* In round 2 agent2 was asked with differing histories of one move each.
C16_Witness ==
    \E i \in 1 .. Len(mt.asked) :
        /\ mt.asked[i].agent = "B" /\ mt.asked[i].round_num = 2
        /\ mt.asked[i].own_history = <<"paper">>
        /\ mt.asked[i].opponent_history = <<"rock">>

(***************************************************************************)
(* C17: in play_game X moves first and the players strictly alternate:     *)
(* every loop iteration places exactly one mark, for the player to move,   *)
(* or ends the game; so (number of X marks) - (number of O marks) is 0 or  *)
(* 1 and, while the game runs, X is to move exactly when they are equal.   *)
(***************************************************************************)
MarksOf(symbol) == Cardinality({c \in Cells(3) : board.grid[c] = symbol})

C17_Counts ==
    obj = "play_game" =>
        /\ MarksOf("X") - MarksOf("O") \in {0, 1}
        /\ pg.pc = "loop" => ((pg.current_player = "X") <=> (MarksOf("X") = MarksOf("O")))
        /\ pg.iters = 0 => pg.current_player = "X" /\ MarksOf("X") = 0

C17_OneMark ==
    (obj = "play_game" /\ pg'.iters = pg.iters + 1) =>
        \/ \E c \in Cells(3) :
              /\ board.grid[c] = Empty
              /\ board'.grid = [board.grid EXCEPT ![c] = pg.current_player]
        \/ board' = board /\ pg'.pc = "returned"

C17_Alternation == []C17_Counts /\ [][C17_OneMark]_vars

\* O is to move after two marks of X and one of O.
C17_Witness ==
    /\ obj = "play_game" /\ pg.pc = "loop" /\ pg.current_player = "O"
    /\ MarksOf("X") = 2 /\ MarksOf("O") = 1

(***************************************************************************)
(* GameLogger (logger.py) as the list of the records written, and          *)
(* play_game with its log_move and log_result calls.  The agents propose   *)
(* rows in -1..MaxLogCoord and any column of Coords(3), or raise.          *)
(***************************************************************************)
MaxLogCoord == 1

GameId == "G1"

\* A buggy logger that drops the move records.
log_move_Dropped(records, game_id, player, move, b) == records

log_move(records, game_id, player, move, b) ==
    Append(records, [type |-> "move", game_id |-> game_id, player |-> player,
                     move |-> move, board |-> b])

log_result(records, game_id, result, final_board, winner) ==
    Append(records, [type |-> "result", game_id |-> game_id, result |-> result,
                     winner |-> winner, final_board |-> final_board])

\* The log after one iteration (or the exit of the loop) that led from
\* board b and frame f to out = <<board, frame>>: a move record for the
\* cell marked, then a result record if play_game returned.
PG_Log(records, b, f, out) ==
    LET marked == {c \in Cells(3) : b.grid[c] # out[1].grid[c]}
        r1 == IF marked = {} THEN records
              ELSE log_move(records, GameId, f.current_player,
                            CHOOSE c \in marked : TRUE, out[1].grid)
    IN IF out[2].pc = "returned"
       THEN log_result(r1, GameId, out[2].result, out[1].grid, out[2].winner)
       ELSE r1

othersLog == <<game, ret, cfg, mt, eng, tour, br>>

InitLog ==
    /\ obj = "play_game+logger"
    /\ board = NewBoard
    /\ \E limit \in Limits : pg = NewFrame(limit)
    /\ log = <<>>
    /\ game = None /\ ret = None /\ cfg = None /\ mt = None /\ eng = None
    /\ tour = None /\ br = None

LogGameMove(row, col) ==
    /\ Iterating
    /\ LET out == PG_Try(board, pg, row, col)
       IN /\ board' = out[1]
          /\ pg' = [out[2] EXCEPT !.iters = pg.iters + 1]
          /\ log' = PG_Log(log, board, pg, out)
    /\ UNCHANGED <<obj, othersLog>>

LogGameRaise ==
    /\ Iterating
    /\ LET out == PG_Except(board, pg)
       IN /\ board' = out[1]
          /\ pg' = [out[2] EXCEPT !.iters = pg.iters + 1]
          /\ log' = PG_Log(log, board, pg, out)
    /\ UNCHANGED <<obj, othersLog>>

LogGameLimit ==
    /\ pg.pc = "loop" /\ ~LoopGuard(pg)
    /\ pg' = PG_AfterLoop(pg)
    /\ log' = PG_Log(log, board, pg, <<board, PG_AfterLoop(pg)>>)
    /\ UNCHANGED <<obj, board, othersLog>>

NextLog ==
    \/ \E row \in -1 .. MaxLogCoord, col \in Coords(3) : LogGameMove(row, col)
    \/ LogGameRaise
    \/ LogGameLimit

SpecLog == InitLog /\ [][NextLog]_vars

(***************************************************************************)
(* C20: the log of a game holds one move record per mark on the final      *)
(* board, in the order the marks were placed and each with the board right *)
(* after that move, followed by exactly one result record, on every exit   *)
(* path.                                                                   *)
(***************************************************************************)
C20_MoveRecords == {i \in 1 .. Len(log) : log[i].type = "move"}

C20_ResultRecords == {i \in 1 .. Len(log) : log[i].type = "result"}

C20_BoardBefore(i) == IF i = 1 THEN NewBoard.grid ELSE log[i - 1].board

C20_LogOfGame ==
    /\ \A i \in 1 .. Len(log) : log[i].game_id = GameId
    /\ Cardinality(C20_MoveRecords) = Cardinality({c \in Cells(3) : board.grid[c] # Empty})
    /\ C20_MoveRecords = 1 .. Cardinality(C20_MoveRecords)
    /\ \A i \in C20_MoveRecords :
          /\ log[i].move \in Cells(3)
          /\ C20_BoardBefore(i)[log[i].move] = Empty
          /\ log[i].board = [C20_BoardBefore(i) EXCEPT ![log[i].move] = log[i].player]
          /\ i = Cardinality(C20_MoveRecords) => log[i].board = board.grid
    /\ pg.pc = "loop" => C20_ResultRecords = {}
    /\ pg.pc = "returned" =>
          /\ C20_ResultRecords = {Len(log)}
          /\ log[Len(log)].result = pg.result
          /\ log[Len(log)].winner = pg.winner
          /\ log[Len(log)].final_board = board.grid

\* A game stopped by the move limit: three move records, then the result.
C20_Witness ==
    /\ pg.pc = "returned" /\ pg.max_moves = 3 /\ pg.result = "draw"
    /\ Len(log) = 4 /\ log[4].type = "result"

\* A game drawn on the full board: nine move records, then the result.
C20_WitnessFull ==
    /\ pg.pc = "returned" /\ pg.max_moves = DefaultMaxMoves /\ pg.result = "draw"
    /\ Len(log) = 10

\* A game won: the result record names the winner.
C20_WitnessWin ==
    /\ pg.pc = "returned" /\ pg.result = "win"
    /\ log[Len(log)].type = "result" /\ log[Len(log)].winner = "X"

(***************************************************************************)
(* Buyer-seller negotiation: run_negotiation (BuyerSellerAgent/            *)
(* orchestrator.py).  The arguments are those main() lets through:         *)
(* 0 < min_price < max_price, max_rounds >= 1, 0 < threshold < 1.  Offers  *)
(* are whole prices; the threshold is a fraction <<num, den>>;             *)
(* final_price is kept doubled, so that the midpoint of two offers is a    *)
(* whole number.  BuyerAgent.propose/respond and SellerAgent.counter       *)
(* return a price in min_price..max_price (agents.py 68-71, 93, 135);      *)
(* MediatorAgent.suggest returns any price read from the reply, or the     *)
(* average of the two offers.  Every agent call may raise; the handler at  *)
(* orchestrator.py 113-118 then runs run_negotiation again, and its        *)
(* JsonLogger appends to the same file.                                    *)
(***************************************************************************)
MaxPrice == 3

MaxNegRounds == 3

MaxAttempts == 2

Thresholds == {<<1, 20>>, <<1, 2>>}

Abs(x) == IF x < 0 THEN -x ELSE x

JsonLogger_log(records, record) == Append(records, record)

\* A buggy test that also accepts a difference equal to the threshold.
NegConverged_NotStrict(c, buyer_offer, seller_offer) ==
    /\ buyer_offer > 0
    /\ Abs(seller_offer - buyer_offer) * c.threshold[2] <= c.threshold[1] * buyer_offer

\* relative_diff < threshold, under the guard buyer_offer > 0
NegConverged(c, buyer_offer, seller_offer) ==
    /\ buyer_offer > 0
    /\ Abs(seller_offer - buyer_offer) * c.threshold[2] < c.threshold[1] * buyer_offer

\* reply.found is whether extract_price_from_response found a price
MediatorAgent_suggest(reply, buyer_offer, seller_offer) ==
    IF ~reply.found THEN buyer_offer + seller_offer ELSE 2 * reply.price

MediatorReplies ==
    {[found |-> FALSE, price |-> 0]} \cup {[found |-> TRUE, price |-> p] : p \in 0 .. MaxPrice + 1}

NegWinner(c, final_price) ==
    IF Abs(final_price - 2 * c.min_price) < Abs(final_price - 2 * c.max_price)
    THEN "buyer" ELSE "seller"

NewNegotiation(attempt, start) ==
    [pc |-> "open", r |-> 0, buyer_offer |-> None, seller_offer |-> None,
     agreement |-> FALSE, final_price |-> 0, attempt |-> attempt, start |-> start]

NegOffers == cfg.min_price .. cfg.max_price

othersNeg == <<board, game, ret, mt, eng, tour, br>>

InitNeg ==
    /\ obj = "run_negotiation"
    /\ \E lo \in 1 .. MaxPrice - 1 : \E hi \in lo + 1 .. MaxPrice :
       \E n \in 1 .. MaxNegRounds : \E t \in Thresholds :
          cfg = [min_price |-> lo, max_price |-> hi, max_rounds |-> n, threshold |-> t]
    /\ pg = NewNegotiation(1, 0)
    /\ log = <<>>
    /\ board = None /\ game = None /\ ret = None /\ mt = None /\ eng = None
    /\ tour = None /\ br = None

\* Round 0: the buyer's opening offer.
NegOpen ==
    /\ pg.pc = "open"
    /\ \E offer \in NegOffers :
          /\ pg' = [pg EXCEPT !.pc = "loop", !.r = 1, !.buyer_offer = offer]
          /\ log' = JsonLogger_log(log, [round |-> 0, role |-> "buyer", offer |-> offer])
    /\ UNCHANGED <<obj, cfg, othersNeg>>

NegLoopGuard(f) == f.pc = "loop" /\ f.r <= cfg.max_rounds

\* One iteration of the loop: the seller counters, the offers are compared,
\* and the buyer responds unless this is the last round.
NegRound ==
    /\ NegLoopGuard(pg)
    /\ \E seller_offer \in NegOffers, reply \in NegOffers :
          LET l1 == JsonLogger_log(log, [round |-> pg.r, role |-> "seller", offer |-> seller_offer])
          IN IF NegConverged(cfg, pg.buyer_offer, seller_offer)
             THEN /\ pg' = [pg EXCEPT !.pc = "break", !.seller_offer = seller_offer,
                                      !.agreement = TRUE,
                                      !.final_price = seller_offer + pg.buyer_offer]
                  /\ log' = l1
             ELSE IF pg.r < cfg.max_rounds
             THEN /\ pg' = [pg EXCEPT !.seller_offer = seller_offer, !.buyer_offer = reply,
                                      !.r = pg.r + 1]
                  /\ log' = JsonLogger_log(l1, [round |-> pg.r, role |-> "buyer", offer |-> reply])
             ELSE /\ pg' = [pg EXCEPT !.seller_offer = seller_offer, !.r = pg.r + 1]
                  /\ log' = l1
    /\ UNCHANGED <<obj, cfg, othersNeg>>

\* After the loop: the mediator if there is no agreement, then the winner
\* and the final record.
NegFinish ==
    /\ pg.pc = "break" \/ (pg.pc = "loop" /\ ~NegLoopGuard(pg))
    /\ \E reply \in MediatorReplies :
          LET final_price == IF pg.agreement THEN pg.final_price
                             ELSE MediatorAgent_suggest(reply, pg.buyer_offer, pg.seller_offer)
              l1 == IF pg.agreement THEN log
                    ELSE JsonLogger_log(log, [round |-> "mediator", role |-> "mediator",
                                              offer |-> final_price])
          IN /\ pg' = [pg EXCEPT !.pc = "done", !.final_price = final_price]
             /\ log' = JsonLogger_log(l1, [final_price |-> final_price,
                                           winner |-> NegWinner(cfg, final_price),
                                           agreement |-> pg.agreement])
    /\ UNCHANGED <<obj, cfg, othersNeg>>

NegCanRaise == pg.attempt < MaxAttempts

\* buyer.propose() raises
NegOpenRaise ==
    /\ pg.pc = "open" /\ NegCanRaise
    /\ pg' = [pg EXCEPT !.pc = "except"]
    /\ UNCHANGED <<obj, cfg, log, othersNeg>>

\* seller.counter() raises
NegCounterRaise ==
    /\ NegLoopGuard(pg) /\ NegCanRaise
    /\ pg' = [pg EXCEPT !.pc = "except"]
    /\ UNCHANGED <<obj, cfg, log, othersNeg>>

\* buyer.respond() raises, after the seller's offer was logged
NegRespondRaise ==
    /\ NegLoopGuard(pg) /\ NegCanRaise /\ pg.r < cfg.max_rounds
    /\ \E seller_offer \in NegOffers :
          /\ ~NegConverged(cfg, pg.buyer_offer, seller_offer)
          /\ pg' = [pg EXCEPT !.pc = "except", !.seller_offer = seller_offer]
          /\ log' = JsonLogger_log(log, [round |-> pg.r, role |-> "seller", offer |-> seller_offer])
    /\ UNCHANGED <<obj, cfg, othersNeg>>

\* mediator.suggest() raises
NegSuggestRaise ==
    /\ pg.pc = "loop" /\ ~NegLoopGuard(pg) /\ ~pg.agreement /\ NegCanRaise
    /\ pg' = [pg EXCEPT !.pc = "except"]
    /\ UNCHANGED <<obj, cfg, log, othersNeg>>

\* The handler runs run_negotiation again.
NegRetry ==
    /\ pg.pc = "except"
    /\ pg' = NewNegotiation(pg.attempt + 1, Len(log))
    /\ UNCHANGED <<obj, cfg, log, othersNeg>>

NextNeg ==
    \/ NegOpen
    \/ NegRound
    \/ NegFinish
    \/ NegOpenRaise
    \/ NegCounterRaise
    \/ NegRespondRaise
    \/ NegSuggestRaise
    \/ NegRetry

SpecNeg == InitNeg /\ [][NextNeg]_vars

(***************************************************************************)
(* C18: an attempt of run_negotiation logs the buyer's opening offer       *)
(* (round 0); in each round r = 1..max_rounds the seller counters;         *)
(* agreement is declared exactly when |seller_offer - buyer_offer| /       *)
(* buyer_offer < threshold, which ends the loop with the midpoint as final *)
(* price; the buyer responds only in rounds r < max_rounds; the mediator   *)
(* is consulted exactly once if all rounds pass without agreement and      *)
(* never after an agreement; exactly one final record is logged, last.     *)
(***************************************************************************)
C18_Attempt == SubSeq(log, pg.start + 1, Len(log))

C18_IsFinal(rec) == "final_price" \in DOMAIN rec

C18_IsOffer(rec, role, round) ==
    /\ "role" \in DOMAIN rec
    /\ rec.role = role
    /\ rec.round = round

\* |seller_offer - buyer_offer| / buyer_offer < threshold
C18_Within(buyer_offer, seller_offer) ==
    Abs(seller_offer - buyer_offer) * cfg.threshold[2] < cfg.threshold[1] * buyer_offer

C18_AttemptOk ==
    LET A == C18_Attempt
        n == Len(A)
    IN /\ n >= 3
       /\ C18_IsFinal(A[n])
       /\ \A i \in 1 .. n - 1 : ~C18_IsFinal(A[i])
       /\ C18_IsOffer(A[1], "buyer", 0)
       /\ C18_IsOffer(A[2], "seller", 1)
       /\ \A i \in 2 .. n - 1 :
             \/ \E r \in 1 .. cfg.max_rounds :
                   /\ C18_IsOffer(A[i], "seller", r)
                   /\ C18_IsOffer(A[i - 1], "buyer", r - 1)
                   /\ IF C18_Within(A[i - 1].offer, A[i].offer)
                      THEN /\ i = n - 1
                           /\ A[n].agreement
                           /\ A[n].final_price = A[i].offer + A[i - 1].offer
                      ELSE IF r < cfg.max_rounds
                      THEN C18_IsOffer(A[i + 1], "buyer", r)
                      ELSE /\ i = n - 2
                           /\ C18_IsOffer(A[i + 1], "mediator", "mediator")
                           /\ ~A[n].agreement
                           /\ A[n].final_price = A[i + 1].offer
             \/ \E r \in 1 .. cfg.max_rounds - 1 :
                   /\ C18_IsOffer(A[i], "buyer", r)
                   /\ C18_IsOffer(A[i - 1], "seller", r)
                   /\ C18_IsOffer(A[i + 1], "seller", r + 1)
             \/ /\ C18_IsOffer(A[i], "mediator", "mediator")
                /\ i = n - 1
                /\ C18_IsOffer(A[i - 1], "seller", cfg.max_rounds)
       /\ A[n].winner \in {"buyer", "seller"}

C18_WitnessMediator ==
    /\ obj = "run_negotiation" /\ pg.pc = "done" /\ ~pg.agreement
    /\ cfg.max_rounds = 3 /\ Len(C18_Attempt) = 8

(***************************************************************************)
(* Debate: run_debate (DebateAgent/orchestrator.py).  The transcript file  *)
(* is the list of its records; JsonLogger.log appends to it and load_jsonl *)
(* reads all of it, including what an earlier run left in the file when    *)
(* --output names an existing file.  DebateAgent.respond and               *)
(* JudgeAgent.pick_winner catch every exception (agents.py 39-70,          *)
(* 118-171), so they always return.  A prompt is kept as the dictionary    *)
(* other_agents_latest it is built from, a set of <<agent, message>>       *)
(* pairs; the timestamp and the topic, model, temperature and seed fields  *)
(* of the records are left out.                                            *)
(***************************************************************************)
MaxDebaters == 3

MaxDebateRounds == 2

Msgs == {"a", "b"}

Letters == {"A", "B"}

\* A transcript left in the file by an earlier debate of MaxDebaters agents.
OldTranscript ==
    <<[event |-> "debate_start", num_agents |-> MaxDebaters, rounds |-> 0]>>
    \o [k \in 1 .. MaxDebaters |->
           [round |-> 0, agent |-> k - 1, message |-> "old", type |-> "opening_statement"]]
    \o <<[event |-> "verdict", winner |-> "A", justification |-> "A"]>>

load_jsonl(file) == file

HasAgent(record) == "agent" \in DOMAIN record

\* A buggy scan that keeps the first message of each other agent.
other_agents_latest_Oldest(current_transcripts, i) ==
    {<<current_transcripts[k].agent, current_transcripts[k].message>> :
        k \in {k \in 1 .. Len(current_transcripts) :
                 /\ HasAgent(current_transcripts[k])
                 /\ current_transcripts[k].agent # i
                 /\ \A l \in 1 .. k - 1 :
                       HasAgent(current_transcripts[l]) =>
                           current_transcripts[l].agent # current_transcripts[k].agent}}

\* The scan of reversed(current_transcripts): the first record met for each
\* agent other than i, that is the last one in the file.
other_agents_latest(current_transcripts, i) ==
    {<<current_transcripts[k].agent, current_transcripts[k].message>> :
        k \in {k \in 1 .. Len(current_transcripts) :
                 /\ HasAgent(current_transcripts[k])
                 /\ current_transcripts[k].agent # i
                 /\ \A l \in k + 1 .. Len(current_transcripts) :
                       HasAgent(current_transcripts[l]) =>
                           current_transcripts[l].agent # current_transcripts[k].agent}}

NewDebate(start) == [pc |-> "start", round_num |-> 0, i |-> 0, start |-> start, asked |-> <<>>]

\* The position after agent f.i has spoken in round f.round_num.
DebateAdvance(f) ==
    IF f.i + 1 < cfg.num_agents THEN [f EXCEPT !.i = f.i + 1]
    ELSE IF f.round_num < cfg.rounds
    THEN [f EXCEPT !.pc = "rounds", !.round_num = f.round_num + 1, !.i = 0]
    ELSE [f EXCEPT !.pc = "judge"]

othersDebate == <<board, game, ret, mt, eng, tour, br>>

InitDebate ==
    /\ obj = "run_debate"
    /\ \E n \in 1 .. MaxDebaters, r \in 0 .. MaxDebateRounds :
          cfg = [num_agents |-> n, rounds |-> r]
    /\ log \in {<<>>, OldTranscript}
    /\ pg = NewDebate(Len(log))
    /\ board = None /\ game = None /\ ret = None /\ mt = None /\ eng = None
    /\ tour = None /\ br = None

DebateStart ==
    /\ pg.pc = "start"
    /\ log' = JsonLogger_log(log, [event |-> "debate_start", num_agents |-> cfg.num_agents,
                                   rounds |-> cfg.rounds])
    /\ pg' = [pg EXCEPT !.pc = "opening"]
    /\ UNCHANGED <<obj, cfg, othersDebate>>

DebateOpening ==
    /\ pg.pc = "opening"
    /\ \E response \in Msgs :
          log' = JsonLogger_log(log, [round |-> 0, agent |-> pg.i, message |-> response,
                                      type |-> "opening_statement"])
    /\ pg' = DebateAdvance(pg)
    /\ UNCHANGED <<obj, cfg, othersDebate>>

DebateResponse ==
    /\ pg.pc = "rounds"
    /\ LET prompt == [agent |-> pg.i, round_num |-> pg.round_num,
                      others |-> other_agents_latest(load_jsonl(log), pg.i)]
       IN /\ \E response \in Msgs :
                log' = JsonLogger_log(log, [round |-> pg.round_num, agent |-> pg.i,
                                            message |-> response, type |-> "debate_response"])
          /\ pg' = DebateAdvance([pg EXCEPT !.asked = Append(pg.asked, prompt)])
    /\ UNCHANGED <<obj, cfg, othersDebate>>

DebateVerdict ==
    /\ pg.pc = "judge"
    /\ \E winner_letter \in Letters :
          log' = JsonLogger_log(log, [event |-> "verdict", winner |-> winner_letter,
                                      justification |-> winner_letter])
    /\ pg' = [pg EXCEPT !.pc = "done"]
    /\ UNCHANGED <<obj, cfg, othersDebate>>

NextDebate ==
    \/ DebateStart
    \/ DebateOpening
    \/ DebateResponse
    \/ DebateVerdict

SpecDebate == InitDebate /\ [][NextDebate]_vars

(***************************************************************************)
(* C19: run_debate with n agents and R rounds logs debate_start, then the  *)
(* n opening statements of agents 0..n-1 (round 0), then for each round    *)
(* 1..R one response of each agent in index order, then exactly one        *)
(* verdict, last: n*(R+1) agent messages in all.  The prompt of agent i in *)
(* round r holds, for every other agent j, j's most recent message: that   *)
(* of round r if j < i, that of round r-1 otherwise.                       *)
(***************************************************************************)
C19_Run == SubSeq(log, pg.start + 1, Len(log))

C19_Messages == cfg.num_agents * (cfg.rounds + 1)

\* The record expected at place k of the run's log.
C19_Expected(k, rec) ==
    IF k = 1 THEN "event" \in DOMAIN rec /\ rec.event = "debate_start"
    ELSE IF k <= C19_Messages + 1
    THEN /\ HasAgent(rec)
         /\ rec.round = (k - 2) \div cfg.num_agents
         /\ rec.agent = (k - 2) % cfg.num_agents
         /\ rec.type = IF rec.round = 0 THEN "opening_statement" ELSE "debate_response"
    ELSE "event" \in DOMAIN rec /\ rec.event = "verdict"

\* The message of agent j in round r.
C19_MessageOf(j, r) == C19_Run[2 + r * cfg.num_agents + j].message

C19_DebateLog ==
    obj = "run_debate" =>
        /\ Len(C19_Run) <= C19_Messages + 2
        /\ \A k \in 1 .. Len(C19_Run) : C19_Expected(k, C19_Run[k])
        /\ pg.pc = "done" => Len(C19_Run) = C19_Messages + 2
        /\ pg.pc = "done" => Len(pg.asked) = cfg.num_agents * cfg.rounds
        /\ \A q \in 1 .. Len(pg.asked) :
              LET i == pg.asked[q].agent
                  r == pg.asked[q].round_num
              IN /\ i = (q - 1) % cfg.num_agents
                 /\ r = 1 + (q - 1) \div cfg.num_agents
                 /\ \A j \in 0 .. cfg.num_agents - 1 :
                       j # i =>
                          /\ <<j, C19_MessageOf(j, IF j < i THEN r ELSE r - 1)>> \in pg.asked[q].others
                          /\ \A m \in Msgs \cup {"old"} :
                                <<j, m>> \in pg.asked[q].others =>
                                    m = C19_MessageOf(j, IF j < i THEN r ELSE r - 1)

\* A finished debate of three agents and two rounds in which agent 0 changed
\* its message from round to round.
C19_Witness ==
    /\ obj = "run_debate" /\ pg.pc = "done"
    /\ cfg.num_agents = 3 /\ cfg.rounds = 2
    /\ C19_MessageOf(0, 0) # C19_MessageOf(0, 1)
    /\ C19_MessageOf(0, 1) # C19_MessageOf(0, 2)

\* The same, appended to a file that held an earlier transcript.
C19_WitnessAppend ==
    /\ obj = "run_debate" /\ pg.pc = "done" /\ pg.start > 0
    /\ cfg.num_agents = 2 /\ cfg.rounds = 1

====
